---- MODULE Spec2Model ----
(***************************************************************************)
(* Transform-dialect extension ops of cpp_ext/CommonExtensions and the     *)
(* Python bindings of cpp_ext/NelliExtension:                              *)
(*   - transform::ApplyPatternsOp::applyToOne   (Spec, SpecTwice)          *)
(*   - setFusedOpOperandLimit, the fusion gate  (SpecGate)                 *)
(*   - hoistStaticallyBoundAllocationsInFunc    (SpecHoist, SpecHoistFunc) *)
(*   - the return values of the transform ops   (SpecOps)                  *)
(*   - the state the bindings keep              (SpecBind, SpecNested)     *)
(*   - ApplyBufferOptimizationsOp::applyToOne   (SpecBuf)                  *)
(* The host compiler (greedy driver, LICM, upper-bound analysis) is an     *)
(* oracle: its answers are nondeterministic inputs of the actions.         *)
(***************************************************************************)
EXTENDS Integers, Sequences, FiniteSets, TLC

VARIABLES
    \* ---- ApplyPatternsOp::applyToOne
    target,     \* the payload op handed in: [isolated, flags, funcs]
    pc,         \* position inside applyToOne
    patterns,   \* RewritePatternSet patterns, in registration order
    payload,    \* the IR under target: [funcs, rewritten, redexes]
    trace,      \* history: the phases that ran, in order
    results,    \* transform::ApplyToEachResultList
    status,     \* the DiagnosedSilenceableFailure returned
    swapRead,   \* what the swap rule's control lambda read (dangling capture)
    outputs,    \* history: the IR after each successful application
    \* ---- setFusedOpOperandLimit
    edge,            \* the OpOperand *fusedOperand of the call under test
    other,           \* a second candidate edge of the same IR
    fusedOpOperands, \* the SetVector<Value> of the current/last call
    gateResult,      \* the last returned boolean ("none" before a call)
    answers,         \* history: per edge, what the calls returned so far
    \* ---- hoistStaticallyBoundAllocationsInFunc
    allocType,  \* AllocLikeOpType of the instantiation that runs
    func0,      \* the function handed in
    func,       \* the function being rewritten
    hpc,        \* position inside HoistStaticAllocOp::applyToOne
    allocLikeOps, \* the collected candidates (ids), in walk order
    hlog,       \* history: per processed candidate, what hoistOne answered
    hresults,   \* transform::ApplyToEachResultList of HoistStaticAllocOp
    hstatus,    \* the DiagnosedSilenceableFailure HoistStaticAllocOp returned
    \* ---- ShareForallOperandsOp, TransformBufferizeOp,
    \* ---- TransformEliminateEmptyTensorsOp
    top,        \* which of the three transform ops is applied
    targs,      \* its attributes and the payload it is handed
    tpc,        \* "entry" before it ran, "done" after it returned
    tpayload,   \* the payload after the op (the forall's outputs)
    tresults,   \* what the op put into its results
    tstatus,    \* the DiagnosedSilenceableFailure it returned
    \* ---- the Python bindings of NelliExtension.cpp
    annotator_, \* thread_local py::object annotator_
    seen,       \* nelli::seen, the table reset_disambig_names clears
    ncalls,     \* how many calls of the bindings were made
    last,       \* history: the last call, the state it met and its result
    unrolling,  \* the affine_for_unroll_by_factor call that is running
    callback,   \* history: the last call of annotateFn by the host
    \* ---- ApplyBufferOptimizationsOp::applyToOne
    bufIn,      \* the users of the allocations under target, in program order
    bufFlow,    \* history: the positions left by vector::transferOpflowOpt
    bufOut,     \* the ids of the operations left under target
    opToErase,  \* std::vector<Operation *> opToErase
    bufpc,      \* "entry" before applyToOne ran, "done" after it returned
    bufResults  \* transform::ApplyToEachResultList

applyVars ==
    <<target, pc, patterns, payload, trace, results, status, swapRead, outputs>>
gateVars == <<edge, other, fusedOpOperands, gateResult, answers>>
hoistVars ==
    <<allocType, func0, func, hpc, allocLikeOps, hlog, hresults, hstatus>>
opsVars == <<top, targs, tpc, tpayload, tresults, tstatus>>
bindVars == <<annotator_, seen, ncalls, last, unrolling, callback>>
bufVars == <<bufIn, bufFlow, bufOut, opToErase, bufpc, bufResults>>
vars == <<applyVars, gateVars, hoistVars, opsVars, bindVars, bufVars>>

\* ------------------------------------------------------------------ bounds

\* at most this many attributes are set on one ApplyPatternsOp
MaxEnabled == 2
\* at most this many func.func ops are nested in (or are) the target
MaxFuncs == 2
\* the SSA values of the fusion gate's IR are 0..MaxValue
MaxValue == 4
\* an allocation of the hoister's function has at most this many dimensions
MaxRank == 2
\* ... and at most this many uses
MaxUses == 2
\* the scf.for of the hoister's function runs this many iterations
LoopTrip == 2
\* ApplyPatternsOp is applied to the same target at most this many times
MaxApplications == 2
\* an scf.forall has at most this many outputs, share_operands at most this
\* many entries, and a transform op's handle at most this many payload ops
MaxOutputs == 2
\* the share_operands attribute has at most this many entries
MaxShare == 3
\* the allocations under an ApplyBufferOptimizationsOp target have at most
\* this many transitive users together
MaxBufUsers == 3
\* affine_for_unroll_by_factor is called with unrollFactor in 1..MaxFactor
MaxFactor == 3
\* the bindings are called at most this many times in one process
MaxCalls == 3

\* ----------------------------------------------------------------- helpers

Range(s) == {s[i] : i \in 1..Len(s)}

RECURSIVE SubsetsUpTo(_, _)
SubsetsUpTo(S, k) ==
    IF k = 0 THEN {{}}
    ELSE LET P == SubsetsUpTo(S, k - 1)
         IN  P \cup {p \cup {x} : p \in P, x \in S}

RECURSIVE SeqsUpTo(_, _)
SeqsUpTo(S, k) ==
    IF k = 0 THEN {<<>>}
    ELSE LET P == SeqsUpTo(S, k - 1)
         IN  P \cup {Append(p, x) : p \in P, x \in S}

\* =========================================================================
\* ApplyPatternsOp
\* =========================================================================

\* The unit attributes applyToOne reads (the getters of lines 352-391, 418,
\* 440).  rankReducingLinalg, rankReducingLinalgViaReshapes and the two
\* unrollVectorsGpu attributes are set by build() but never read.
RuleFlags ==
    {"additionalPatterns", "bubbleCollapse", "bubbleExpand",
     "bubblePackUnPack", "canonicalization",
     "eraseUnnecessaryTensorOperands", "expandMemrefStridedMetadata",
     "foldMemrefAliases", "foldReassociativeReshapes",
     "foldTensorEmptyExtract", "linalgElementwiseGreedyFusion",
     "lowerTransferOpPermutations", "lowerVectorMasks",
     "rankReducingVector", "swappingPatterns", "tilingCanonicalization"}

Flags == RuleFlags \cup {"swapPaddingElideConditional", "licm", "cse"}

\* template <int limit = 3> and its one instantiation <3>
FusedOpOperandLimit == 3

Rule(n, a) == [name |-> n, arg |-> a]

addadditionalPatterns(p) == Append(p, Rule("GenerateToConstant", "none"))

addAllRegisteredCanonicalizationPatterns(p) ==
    Append(p, Rule("Canonicalization", "none"))

addEraseUnnecessaryTensorOperandsPatterns(p) ==
    Append(p, Rule("EraseUnnecessaryInputs", "none"))

addFoldMemrefAliasPatterns(p) == Append(p, Rule("FoldMemRefAliasOp", "none"))

addReassociativeReshapePatterns(p) ==
    Append(p, Rule("ReassociativeReshapeFolding", "none"))

\* A slip: the rule is added to a fresh set, losing what was registered.
addFoldTensorEmptyExtractFresh(p) ==
    <<Rule("FoldTensorEmptyExtract", "none")>>

addFoldTensorEmptyExtract(p) ==
    Append(p, Rule("FoldTensorEmptyExtract", "none"))

addLowerTransferOpPermutationsPatterns(p) ==
    Append(p, Rule("VectorTransferPermutationMapLowering", "none"))

addLowerVectorMasksPatterns(p) ==
    Append(p, Rule("VectorMaskLoweringForSideEffectingOps", "none"))

addRankReducingVectorPatterns(p) ==
    Append(p, Rule("CastAwayVectorLeadingOneDim", "none"))

\* The pattern is registered with a control function written to answer
\* !swapPaddingElideCornerCase.
addSwappingPatterns(p, swapPaddingElideCornerCase) ==
    Append(p, Rule("ExtractSliceOfPadTensorSwap",
                   IF swapPaddingElideCornerCase THEN "false" ELSE "true"))

addTilingCanonicalizationPatterns(p) ==
    Append(Append(p, Rule("LinalgTilingCanonicalization", "none")),
           Rule("SCFForLoopCanonicalization", "none"))

\* RewritePatternSet patterns(ctx) and the chain of "if (getX()) addX(patterns)".
BuildPatterns(f) ==
    LET p0  == <<>>
        p1  == IF "additionalPatterns" \in f
               THEN addadditionalPatterns(p0) ELSE p0
        p2  == IF "bubbleCollapse" \in f
               THEN Append(p1, Rule("FoldReshapeOpsByCollapsing", "always"))
               ELSE p1
        p3  == IF "bubbleExpand" \in f
               THEN Append(p2, Rule("FoldReshapeOpsByExpansion", "always"))
               ELSE p2
        p4  == IF "bubblePackUnPack" \in f
               THEN Append(p3, Rule("DataLayoutPropagation", "none")) ELSE p3
        p5  == IF "canonicalization" \in f
               THEN addAllRegisteredCanonicalizationPatterns(p4) ELSE p4
        p6  == IF "eraseUnnecessaryTensorOperands" \in f
               THEN addEraseUnnecessaryTensorOperandsPatterns(p5) ELSE p5
        p7  == IF "expandMemrefStridedMetadata" \in f
               THEN Append(p6, Rule("ExpandStridedMetadata", "none")) ELSE p6
        p8  == IF "foldMemrefAliases" \in f
               THEN addFoldMemrefAliasPatterns(p7) ELSE p7
        p9  == IF "foldReassociativeReshapes" \in f
               THEN addReassociativeReshapePatterns(p8) ELSE p8
        p10 == IF "foldTensorEmptyExtract" \in f
               THEN addFoldTensorEmptyExtract(p9) ELSE p9
        p11 == IF "linalgElementwiseGreedyFusion" \in f
               THEN Append(p10, Rule("ElementwiseOpsFusion", "limit3"))
               ELSE p10
        p12 == IF "lowerTransferOpPermutations" \in f
               THEN addLowerTransferOpPermutationsPatterns(p11) ELSE p11
        p13 == IF "lowerVectorMasks" \in f
               THEN addLowerVectorMasksPatterns(p12) ELSE p12
        p14 == IF "rankReducingVector" \in f
               THEN addRankReducingVectorPatterns(p13) ELSE p13
        p15 == IF "swappingPatterns" \in f
               THEN addSwappingPatterns(p14,
                                        "swapPaddingElideConditional" \in f)
               ELSE p14
        p16 == IF "tilingCanonicalization" \in f
               THEN addTilingCanonicalizationPatterns(p15) ELSE p15
    IN  p16

\* ----- the payload under the target

LoopKinds == {"affine.for", "scf.for", "scf.parallel"}
PromotableKinds == {"affine.for", "scf.for"}

Loop(k, s, r) == [kind |-> k, single |-> s, inv |-> TRUE, redex |-> r]

\* The bodies of the nested functions: one single-iteration affine.for; an
\* scf.for with several iterations and a single-iteration scf.parallel.
\* Every loop starts with one loop-invariant op inside and one op that
\* computes with the induction variable; `redex` tells whether the body also
\* holds an op the greedy driver rewrites (a rule of the set matches it, or it
\* folds, or it is dead).
FuncBodies ==
    {<<Loop("affine.for", TRUE, FALSE)>>,
     <<Loop("scf.for", FALSE, TRUE), Loop("scf.parallel", TRUE, FALSE)>>}

FuncOf(body) == [loops |-> body, hoisted |-> 0, promoted |-> 0]

\* the ops under the functions the greedy driver would rewrite
Redexes(funcs) ==
    LET n[i \in 0..Len(funcs)] ==
            IF i = 0 THEN 0
            ELSE n[i - 1] + Cardinality({j \in DOMAIN funcs[i] :
                                            funcs[i][j].redex})
    IN  n[Len(funcs)]

PayloadOf(t) ==
    [funcs |-> [i \in DOMAIN t.funcs |-> FuncOf(t.funcs[i])],
     rewritten |-> FALSE,
     redexes |-> Redexes(t.funcs)]

\* target->hasTrait<OpTrait::IsIsolatedFromAbove>()
AlwaysIsolated(t) == TRUE

IsIsolatedFromAbove(t) == t.isolated

\* target->walk: every nested op except the target itself
NestedOps(p) ==
    LET n[i \in 0..Len(p.funcs)] ==
            IF i = 0 THEN 0 ELSE n[i - 1] + 1 + Len(p.funcs[i].loops)
    IN  n[Len(p.funcs)]

\* failed(result)
GreedyFailureIgnored(ok) == FALSE

GreedyFailed(ok) == ~ok

\* getLicm(), getCse()
GetCseForLicm(t) == "cse" \in t.flags

LicmAlways(t) == TRUE

GetLicm(t) == "licm" \in t.flags

GetCse(t) == "cse" \in t.flags

Event(e, i) == [ev |-> e, func |-> i]

\* moveLoopInvariantCode(loopLike) on every LoopLikeOpInterface of funcOp
MoveLoopInvariantCode(f) ==
    [f EXCEPT
       !.loops = [i \in DOMAIN f.loops |-> [f.loops[i] EXCEPT !.inv = FALSE]],
       !.hoisted = @ + Cardinality({i \in DOMAIN f.loops : f.loops[i].inv})]

\* promoteIfSingleIteration on every AffineForOp / scf::ForOp of funcOp
PromoteSingleIteration(f) ==
    LET kept == SelectSeq(f.loops,
                          LAMBDA l : ~(l.kind \in PromotableKinds /\ l.single))
    IN  [f EXCEPT !.loops = kept,
                  !.promoted = @ + (Len(f.loops) - Len(kept))]

\* the loops promoteIfSingleIteration inlines: the op that computed with
\* the induction variable now computes with the constant lower bound, which
\* the greedy driver folds
Promotions(funcs) ==
    LET n[i \in 0..Len(funcs)] ==
            IF i = 0 THEN 0
            ELSE n[i - 1] +
                 Cardinality({j \in DOMAIN funcs[i].loops :
                                /\ funcs[i].loops[j].kind \in PromotableKinds
                                /\ funcs[i].loops[j].single})
    IN  n[Len(funcs)]

\* target->walk([&](func::FuncOp funcOp) { licm; promotion })
LicmPayload(p) ==
    [p EXCEPT !.funcs =
        [i \in DOMAIN p.funcs |->
            PromoteSingleIteration(MoveLoopInvariantCode(p.funcs[i]))],
              !.redexes = @ + Promotions(p.funcs)]

RECURSIVE LicmEvents(_)
LicmEvents(n) ==
    IF n = 0 THEN <<>>
    ELSE LicmEvents(n - 1) \o
         <<Event("moveLoopInvariantCode", n),
           Event("promoteIfSingleIteration", n)>>

\* A slip: the elimination call is live and removes an op.
CseEliminates(p) == [p EXCEPT !.rewritten = TRUE, !.redexes = @ + 1]

\* target->walk([&](func::FuncOp funcOp) { lastFuncVisited = funcOp;
\* return WalkResult::advance(); }): the elimination call is commented out.
\* The walk is never interrupted, so lines 454-464 return nothing.
CsePayload(p) == p

RECURSIVE CseEvents(_)
CseEvents(n) ==
    IF n = 0 THEN <<>>
    ELSE Append(CseEvents(n - 1), Event("cseVisit", n))

Targets ==
    [isolated : BOOLEAN,
     flags : SubsetsUpTo(Flags, MaxEnabled),
     funcs : SeqsUpTo(FuncBodies, MaxFuncs)]

NoStatus == [kind |-> "none", msg |-> ""]

InitApply ==
    /\ target \in Targets
    /\ pc = "entry"
    /\ patterns = <<>>
    /\ payload = PayloadOf(target)
    /\ trace = <<>>
    /\ results = <<>>
    /\ status = NoStatus
    /\ swapRead = "unread"
    /\ outputs = <<>>

IdleApply ==
    /\ target = [isolated |-> TRUE, flags |-> {}, funcs |-> <<>>]
    /\ pc = "idle"
    /\ patterns = <<>>
    /\ payload = PayloadOf(target)
    /\ trace = <<>>
    /\ results = <<>>
    /\ status = NoStatus
    /\ swapRead = "unread"
    /\ outputs = <<>>

\* lines 344-349: the early return on a target that is not isolated
NotIsolated ==
    /\ pc = "entry"
    /\ ~IsIsolatedFromAbove(target)
    /\ status' = [kind |-> "definite",
                  msg |-> "applies only to isolated-from-above targets"]
    /\ pc' = "done"
    /\ UNCHANGED <<target, patterns, payload, trace, results, swapRead, outputs>>
    /\ UNCHANGED <<gateVars, hoistVars, opsVars, bindVars, bufVars>>

\* lines 350-396: the rule set is assembled
Populate ==
    /\ pc = "entry"
    /\ IsIsolatedFromAbove(target)
    /\ patterns' = BuildPatterns(target.flags)
    /\ pc' = "greedy"
    /\ UNCHANGED <<target, payload, trace, results, status, swapRead, outputs>>
    /\ UNCHANGED <<gateVars, hoistVars, opsVars, bindVars, bufVars>>

\* lines 399-412: applyOpPatternsAndFold over the nested ops.  The driver
\* rewrites what it has to rewrite and answers success, leaving nothing it
\* would still rewrite, or failure when it has not converged; the control
\* function of the swap rule reads a reference to a parameter of
\* addSwappingPatterns that no longer exists, so what it reads is any
\* boolean.
Greedy ==
    /\ pc = "greedy"
    /\ \E ok \in BOOLEAN :
         LET changed == NestedOps(payload) > 0 /\ payload.redexes > 0
         IN
         /\ ~changed => ok
         /\ payload' = [payload EXCEPT !.rewritten = changed,
                                       !.redexes = IF ok THEN 0 ELSE @]
         /\ trace' = Append(trace, Event(IF ok THEN "greedy"
                                               ELSE "greedyFailed", 0))
         /\ IF GreedyFailed(ok)
            THEN /\ status' = [kind |-> "definite",
                               msg |-> "greedy patterns failed"]
                 /\ pc' = "done"
            ELSE /\ status' = status
                 /\ pc' = "licm"
    /\ swapRead' \in
         IF "ExtractSliceOfPadTensorSwap" \in {r.name : r \in Range(patterns)}
         THEN {"unread", "true", "false"} ELSE {"unread"}
    /\ UNCHANGED <<target, patterns, results, outputs>>
    /\ UNCHANGED <<gateVars, hoistVars, opsVars, bindVars, bufVars>>

\* lines 418-438
Licm ==
    /\ pc = "licm"
    /\ IF GetLicm(target)
       THEN /\ payload' = LicmPayload(payload)
            /\ trace' = Append(trace, Event("licm", 0))
                            \o LicmEvents(Len(payload.funcs))
       ELSE UNCHANGED <<payload, trace>>
    /\ pc' = "cse"
    /\ UNCHANGED <<target, patterns, results, status, swapRead, outputs>>
    /\ UNCHANGED <<gateVars, hoistVars, opsVars, bindVars, bufVars>>

\* lines 440-465
Cse ==
    /\ pc = "cse"
    /\ IF GetCse(target)
       THEN /\ payload' = CsePayload(payload)
            /\ trace' = Append(trace, Event("cse", 0))
                            \o CseEvents(Len(payload.funcs))
       ELSE UNCHANGED <<payload, trace>>
    /\ pc' = "push"
    /\ UNCHANGED <<target, patterns, results, status, swapRead, outputs>>
    /\ UNCHANGED <<gateVars, hoistVars, opsVars, bindVars, bufVars>>

\* lines 467-468
PushResult ==
    /\ pc = "push"
    /\ results' = Append(results, "target")
    /\ trace' = Append(trace, Event("push", 0))
    /\ status' = [kind |-> "success", msg |-> ""]
    /\ outputs' = Append(outputs, payload)
    /\ pc' = "done"
    /\ UNCHANGED <<target, patterns, payload, swapRead>>
    /\ UNCHANGED <<gateVars, hoistVars, opsVars, bindVars, bufVars>>

\* The transform is applied once more to the target it pushed as its result
\* (line 467): applyToOne starts again on the IR the last application left.
ApplyAgain ==
    /\ pc = "done"
    /\ status.kind = "success"
    /\ Len(outputs) < MaxApplications
    /\ pc' = "entry"
    /\ patterns' = <<>>
    /\ payload' = [payload EXCEPT !.rewritten = FALSE]
    /\ trace' = <<>>
    /\ results' = <<>>
    /\ status' = NoStatus
    /\ swapRead' = "unread"
    /\ UNCHANGED <<target, outputs>>
    /\ UNCHANGED <<gateVars, hoistVars, opsVars, bindVars, bufVars>>

\* =========================================================================
\* Claims about ApplyPatternsOp (specification Spec)
\* =========================================================================

Last(s) == s[Len(s)]

IsPrefix(s, t) == Len(s) <= Len(t) /\ \A i \in 1..Len(s) : s[i] = t[i]

EventNames(t) == {t[i].ev : i \in 1..Len(t)}

\* C1: applyToOne on a target without the isolated-from-above trait ends at
\* once with a definite failure: no rule is registered, no phase (greedy,
\* licm, cse) runs, the payload is what was handed in and no result handle
\* is pushed.
C1_NonIsolatedFailsUntouched ==
    (~target.isolated /\ pc # "entry") =>
        /\ pc = "done"
        /\ status.kind = "definite"
        /\ status.msg = "applies only to isolated-from-above targets"
        /\ patterns = <<>>
        /\ trace = <<>>
        /\ payload = PayloadOf(target)
        /\ results = <<>>
        /\ swapRead = "unread"

C1_Witness ==
    /\ ~target.isolated
    /\ pc = "done"
    /\ {"licm", "cse"} \subseteq target.flags
    /\ Len(target.funcs) = MaxFuncs

\* C2: when the greedy driver reports failure the operation returns a
\* definite failure right there: the failed run is the last phase of the
\* trace (neither licm nor cse follows) and no result handle is pushed.
C2_GreedyFailureAborts ==
    ("greedyFailed" \in EventNames(trace)) =>
        /\ pc = "done"
        /\ status = [kind |-> "definite", msg |-> "greedy patterns failed"]
        /\ Last(trace).ev = "greedyFailed"
        /\ EventNames(trace) \cap {"licm", "cse", "push"} = {}
        /\ results = <<>>
        /\ payload.funcs = PayloadOf(target).funcs

C2_Witness ==
    /\ "greedyFailed" \in EventNames(trace)
    /\ {"licm", "cse"} \subseteq target.flags
    /\ Len(target.funcs) > 0
    /\ payload.rewritten

\* The order in which applyToOne registers rules, with the attribute that
\* enables each.
RegistrationOrder ==
    << <<"additionalPatterns", "GenerateToConstant">>,
       <<"bubbleCollapse", "FoldReshapeOpsByCollapsing">>,
       <<"bubbleExpand", "FoldReshapeOpsByExpansion">>,
       <<"bubblePackUnPack", "DataLayoutPropagation">>,
       <<"canonicalization", "Canonicalization">>,
       <<"eraseUnnecessaryTensorOperands", "EraseUnnecessaryInputs">>,
       <<"expandMemrefStridedMetadata", "ExpandStridedMetadata">>,
       <<"foldMemrefAliases", "FoldMemRefAliasOp">>,
       <<"foldReassociativeReshapes", "ReassociativeReshapeFolding">>,
       <<"foldTensorEmptyExtract", "FoldTensorEmptyExtract">>,
       <<"linalgElementwiseGreedyFusion", "ElementwiseOpsFusion">>,
       <<"lowerTransferOpPermutations",
         "VectorTransferPermutationMapLowering">>,
       <<"lowerVectorMasks", "VectorMaskLoweringForSideEffectingOps">>,
       <<"rankReducingVector", "CastAwayVectorLeadingOneDim">>,
       <<"swappingPatterns", "ExtractSliceOfPadTensorSwap">>,
       <<"tilingCanonicalization", "LinalgTilingCanonicalization">>,
       <<"tilingCanonicalization", "SCFForLoopCanonicalization">> >>

RuleNames(p) == [i \in DOMAIN p |-> p[i].name]

ExpectedNames(f) ==
    LET on == SelectSeq(RegistrationOrder, LAMBDA e : e[1] \in f)
    IN  [i \in DOMAIN on |-> on[i][2]]

\* the rules of p that q still holds, in q's order
KeptIn(p, q) == SelectSeq(q, LAMBDA r : r.name \in Range(RuleNames(p)))

Built == target.isolated /\ pc # "entry"

\* C9 as stated: the rule set is the union over the enabled flags in one
\* fixed order, and setting any further flag leaves every rule already
\* registered in place, in the same order and unaltered.
C9_Original ==
    Built =>
        /\ RuleNames(patterns) = ExpectedNames(target.flags)
        /\ \A g \in Flags :
             KeptIn(patterns, BuildPatterns(target.flags \cup {g})) = patterns

\* C9 as amended: the same, except that swapPaddingElideConditional, which
\* registers no rule of its own, is handed to the swap rule that
\* swappingPatterns registers and so changes that one rule's argument.
C9_UnionInFixedOrder ==
    Built =>
        /\ RuleNames(patterns) = ExpectedNames(target.flags)
        /\ \A g \in Flags :
             LET q == KeptIn(patterns, BuildPatterns(target.flags \cup {g}))
             IN  /\ RuleNames(q) = RuleNames(patterns)
                 /\ \A i \in DOMAIN patterns :
                      \/ q[i] = patterns[i]
                      \/ /\ g = "swapPaddingElideConditional"
                         /\ patterns[i].name = "ExtractSliceOfPadTensorSwap"
                         /\ patterns[i].arg = "true"
                         /\ q[i].arg = "false"

C9_Witness ==
    /\ Built
    /\ target.flags = {"canonicalization", "swappingPatterns"}
    /\ Len(patterns) = 2

\* the phases of a successful run on target t, in order
ExpectedTrace(t) ==
    LET n == Len(t.funcs)
        perFunc == [i \in 1..(2 * n) |->
                      IF i % 2 = 1
                      THEN Event("moveLoopInvariantCode", (i + 1) \div 2)
                      ELSE Event("promoteIfSingleIteration", i \div 2)]
        visits == [i \in 1..n |-> Event("cseVisit", i)]
    IN  <<Event("greedy", 0)>>
        \o (IF "licm" \in t.flags THEN <<Event("licm", 0)>> \o perFunc
            ELSE <<>>)
        \o (IF "cse" \in t.flags THEN <<Event("cse", 0)>> \o visits
            ELSE <<>>)
        \o <<Event("push", 0)>>

\* C10: on an isolated target the phases run in one order: the greedy
\* rewrite first; then, exactly when licm is set, loop-invariant code motion
\* followed by single-iteration promotion, function by function; then,
\* exactly when cse is set, the cse walk; the target is pushed as the single
\* result last, and success is returned only then.
C10_PhaseOrder ==
    (target.isolated /\ "greedyFailed" \notin EventNames(trace)) =>
        /\ IsPrefix(trace, ExpectedTrace(target))
        /\ (status.kind = "success") <=> (trace = ExpectedTrace(target))
        /\ (status.kind = "success") => (pc = "done" /\ results = <<"target">>)
        /\ (status.kind # "success") => results = <<>>
        /\ (pc = "done") => status.kind = "success"
        /\ (pc \in {"cse", "push", "done"}) =>
              payload.funcs = IF "licm" \in target.flags
                              THEN LicmPayload(PayloadOf(target)).funcs
                              ELSE PayloadOf(target).funcs

C10_Witness ==
    /\ target.isolated
    /\ status.kind = "success"
    /\ {"licm", "cse"} \subseteq target.flags
    /\ Len(target.funcs) = MaxFuncs
    /\ \E i \in DOMAIN payload.funcs : payload.funcs[i].promoted > 0

\* the IR a successful application leaves of target t, cse aside
OutcomeOf(t) ==
    LET p == PayloadOf(t)
        g == [p EXCEPT !.rewritten = (Len(t.funcs) > 0 /\ p.redexes > 0),
                       !.redexes = 0]
    IN  IF "licm" \in t.flags THEN LicmPayload(g) ELSE g

\* C18: the cse flag changes neither the IR nor the status.  With cse set
\* the rule set is the one built without it, the IR after the cse phase is
\* the IR a run without cse leaves, no failure comes after the greedy phase,
\* and a run that got past the greedy phase ends in success.
C18_CseIsNoOp ==
    LET t == [target EXCEPT !.flags = @ \ {"cse"}]
    IN  /\ Built => patterns = BuildPatterns(t.flags)
        /\ (pc \in {"push", "done"} /\ "greedy" \in EventNames(trace)) =>
               payload = OutcomeOf(t)
        /\ "cse" \in EventNames(trace) => status.kind # "definite"
        /\ (pc = "done" /\ "greedy" \in EventNames(trace)) =>
               status.kind = "success"

\* a successful run with cse and licm set over the largest target: every
\* function was visited by the cse walk
C18_Witness ==
    /\ pc = "done"
    /\ status.kind = "success"
    /\ target.flags = {"cse", "licm"}
    /\ Len(target.funcs) = MaxFuncs
    /\ Event("cseVisit", MaxFuncs) \in Range(trace)
    /\ payload.rewritten

\* ----- applying twice (specification SpecTwice)

\* a later application of the transform to its own output changes nothing
\* and succeeds
SecondIsNoOp ==
    Len(outputs) >= 1 =>
        /\ payload.funcs = outputs[1].funcs
        /\ payload.redexes = outputs[1].redexes
        /\ (pc # "done" \/ Len(outputs) >= 2) => ~payload.rewritten
        /\ pc = "done" => status.kind = "success"
        /\ \A i \in DOMAIN outputs :
              /\ outputs[i].funcs = outputs[1].funcs
              /\ outputs[i].redexes = outputs[1].redexes
              /\ i >= 2 => ~outputs[i].rewritten

\* C11 as stated: for every isolated target and every set of flags, once an
\* application has succeeded (its greedy rewrite reached a fixpoint), a
\* second application to its output changes nothing and succeeds.
C11_Original == SecondIsNoOp

\* C11 as amended: the same when licm is not set.  With licm the promotion
\* of single-iteration loops runs after the fixpoint and leaves ops the
\* second application's greedy rewrite folds.
C11_IdempotentWithoutLicm ==
    "licm" \notin target.flags => SecondIsNoOp

\* a second application has succeeded, on the output of a first one that
\* rewrote the IR, with cse set and licm not
C11_Witness ==
    /\ Len(outputs) = 2
    /\ outputs[1].rewritten
    /\ "licm" \notin target.flags
    /\ "cse" \in target.flags
    /\ Cardinality(target.flags) = MaxEnabled
    /\ pc = "done"

\* =========================================================================
\* setFusedOpOperandLimit, the fusion legality gate
\* =========================================================================

\* The SSA values.  FusedValue is the value the fused operand holds
\* (fusedOperand->get()); OtherResult is a second result of its producer.
Values == 0..MaxValue
FusedValue == 0
OtherResult == -1

RECURSIVE SortedSeq(_)
SortedSeq(S) ==
    IF S = {} THEN <<>>
    ELSE LET m == CHOOSE x \in S : \A y \in S : x <= y
         IN  <<m>> \o SortedSeq(S \ {m})

\* An operation: ins are its leading operands (the DPS inputs of a linalg
\* op), outs its trailing ones (the DPS inits); operands = ins \o outs.
Op(l, i, o, r) == [linalg |-> l, ins |-> i, outs |-> o, results |-> r]

Operands(op) == op.ins \o op.outs

\* the owner of the fused operand: it has the fused value among its operands
ConsumerOps ==
    {c \in {Op(l, SortedSeq(S), o, <<>>) :
              l \in BOOLEAN, S \in SUBSET Values,
              o \in SeqsUpTo({FusedValue, 1}, 1)} :
        FusedValue \in Range(Operands(c))}

\* the defining op of the fused value: the value is one of its results, and
\* none of its operands (SSA dominance)
ProducerOps ==
    {Op(l, SortedSeq(S), o, r) :
        l \in BOOLEAN, S \in SUBSET (Values \ {FusedValue}),
        o \in SeqsUpTo({1}, 1),
        r \in {<<FusedValue>>, <<FusedValue, OtherResult>>}}

\* A candidate edge: the consumer and what getDefiningOp() returns, <<>> for
\* a block argument.
Edges ==
    [consumer : ConsumerOps,
     definingOp : {<<>>} \cup {<<p>> : p \in ProducerOps}]

\* a second edge of the IR, over the limit: 2 + 2 distinct operands
OtherEdge ==
    [consumer |-> Op(TRUE, <<0, 1, 2>>, <<>>, <<>>),
     definingOp |-> <<Op(TRUE, <<3, 4>>, <<>>, <<0>>)>>]

\* SetVector<Value>: insertion keeps the first occurrence only
SetVectorInsert(sv, x) == IF x \in Range(sv) THEN sv ELSE Append(sv, x)

RECURSIVE SetVectorInsertRange(_, _)
SetVectorInsertRange(sv, xs) ==
    IF xs = <<>> THEN sv
    ELSE SetVectorInsertRange(SetVectorInsert(sv, Head(xs)), Tail(xs))

SetVectorRemove(sv, x) == SelectSeq(sv, LAMBDA y : y # x)

\* A slip: no TypeSwitch, every operand of a linalg op is inserted.
addOperandsAll(op, operandSet) ==
    SetVectorInsertRange(operandSet, Operands(op))

\* addOperands (lines 165-176); a null op cannot reach it from the gate
addOperands(op, operandSet) ==
    IF op.linalg
    THEN SetVectorInsertRange(operandSet, op.ins)
    ELSE SetVectorInsertRange(operandSet, Operands(op))

\* A slip: a producer with several results passes.
HasAResult(producer) == Len(producer.results) >= 1

\* producer->getNumResults() == 1   (line 185, negated)
HasSingleResult(producer) == Len(producer.results) = 1

\* A slip: the bound is exclusive.
BelowLimit(size, limit) == size < limit

\* fusedOpOperands.size() <= limit   (line 190)
WithinLimit(size, limit) == size <= limit

\* A slip: the set is kept between calls (a static local).
StaleSetVector == fusedOpOperands

\* SetVector<Value> fusedOpOperands;   (line 184: a fresh, empty local)
NewSetVector == <<>>

\* setFusedOpOperandLimit<limit>(fusedOperand): the returned boolean, the
\* SetVector the call leaves behind and the size it compared (-1: the call
\* returned before it counted)
setFusedOpOperandLimit(limit, fusedOperand) ==
    IF fusedOperand.definingOp = <<>>
    THEN [ret |-> FALSE, set |-> fusedOpOperands, size |-> -1]
    ELSE LET producer == fusedOperand.definingOp[1]
             consumer == fusedOperand.consumer
             s0 == NewSetVector
         IN  IF ~HasSingleResult(producer)
             THEN [ret |-> FALSE, set |-> s0, size |-> -1]
             ELSE LET s1 == addOperands(consumer, s0)
                      s2 == SetVectorRemove(s1, producer.results[1])
                      s3 == addOperands(producer, s2)
                  IN  [ret |-> WithinLimit(Len(s3), limit), set |-> s3,
                       size |-> Len(s3)]

InitGate ==
    /\ edge \in Edges
    /\ other = OtherEdge
    /\ fusedOpOperands = <<>>
    /\ gateResult = "none"
    /\ answers = [e |-> {}, o |-> {}]

\* the elementwise-fusion patterns ask the gate about the edge under test
CallOnEdge ==
    /\ LET r == setFusedOpOperandLimit(FusedOpOperandLimit, edge)
       IN  /\ fusedOpOperands' = r.set
           /\ gateResult' = r.ret
           /\ answers' = [answers EXCEPT
                          !.e = @ \cup {[ret |-> r.ret, size |-> r.size]}]
    /\ UNCHANGED <<edge, other>>
    /\ UNCHANGED <<applyVars, hoistVars, opsVars, bindVars, bufVars>>

\* ... and about another edge of the same IR
CallOnOther ==
    /\ LET r == setFusedOpOperandLimit(FusedOpOperandLimit, other)
       IN  /\ fusedOpOperands' = r.set
           /\ gateResult' = r.ret
           /\ answers' = [answers EXCEPT
                          !.o = @ \cup {[ret |-> r.ret, size |-> r.size]}]
    /\ UNCHANGED <<edge, other>>
    /\ UNCHANGED <<applyVars, hoistVars, opsVars, bindVars, bufVars>>

\* =========================================================================
\* Claims about the fusion gate (specification SpecGate)
\* =========================================================================

\* the operands the gate counts for an op: the inputs of a linalg op, every
\* operand of any other op
CountedOperands(op) ==
    IF op.linalg THEN Range(op.ins) ELSE Range(op.ins) \cup Range(op.outs)

HasProducer(e) == e.definingOp # <<>>
Producer(e) == e.definingOp[1]
SingleResult(e) == HasProducer(e) /\ Len(Producer(e).results) = 1

\* the set U of the fused computation's operands
FusedOperandSet(e) ==
    (CountedOperands(e.consumer) \ {Producer(e).results[1]})
        \cup CountedOperands(Producer(e))

Asked == answers.e # {}

\* C5: for an edge whose producer has a single result, the gate returns
\* true exactly when U has at most 3 elements, U being the consumer's
\* counted operands minus the producer's result, united with the producer's
\* counted operands, duplicates counted once; 3 is the limit in use.
C5_TrueIffWithinBudget ==
    /\ FusedOpOperandLimit = 3
    /\ (Asked /\ SingleResult(edge)) =>
          \A a \in answers.e :
             /\ a.size = Cardinality(FusedOperandSet(edge))
             /\ a.ret <=> (Cardinality(FusedOperandSet(edge)) <= 3)
    /\ (answers.o # {}) =>
          \A a \in answers.o :
             a.ret <=> (Cardinality(FusedOperandSet(other)) <= 3)

\* a linalg consumer with an init operand, a producer that is no linalg op
\* and repeats an operand, and a fused operand set of exactly 3 values
C5_Witness ==
    /\ Asked
    /\ SingleResult(edge)
    /\ edge.consumer.linalg
    /\ edge.consumer.outs = <<1>>
    /\ 1 \notin Range(edge.consumer.ins)
    /\ ~Producer(edge).linalg
    /\ Producer(edge).outs = <<1>>
    /\ 1 \in Range(Producer(edge).ins)
    /\ Cardinality(FusedOperandSet(edge)) = 3
    /\ answers.e = {[ret |-> TRUE, size |-> 3]}

Disjoint(S, T) == S \cap T = {}

\* C6 as stated, the consumer's 2 inputs being all its inputs: a producer
\* with 1 input and a consumer with 2 inputs that share none give a count
\* of 3 and true; one more distinct operand on either side gives 4 and false.
C6_Original ==
    (Asked /\ SingleResult(edge)) =>
        LET P == CountedOperands(Producer(edge))
            C == CountedOperands(edge.consumer)
            p == Cardinality(P)
            c == Cardinality(C)
        IN  Disjoint(P, C) =>
              /\ (p = 1 /\ c = 2) =>
                    answers.e = {[ret |-> TRUE, size |-> 3]}
              /\ ((p = 2 /\ c = 2) \/ (p = 1 /\ c = 3)) =>
                    answers.e = {[ret |-> FALSE, size |-> 4]}

\* C6 as amended: the consumer's 2 inputs are counted besides the producer's
\* result.  A producer with 1 input and a consumer with 2 inputs other than
\* the producer's result, sharing none, give a count of 3 and true; one more
\* distinct operand on either side gives 4 and false.
C6_Boundary ==
    (Asked /\ SingleResult(edge)) =>
        LET P == CountedOperands(Producer(edge))
            C == CountedOperands(edge.consumer) \ {FusedValue}
            p == Cardinality(P)
            c == Cardinality(C)
        IN  Disjoint(P, C) =>
              /\ (p = 1 /\ c = 2) =>
                    answers.e = {[ret |-> TRUE, size |-> 3]}
              /\ ((p = 2 /\ c = 2) \/ (p = 1 /\ c = 3)) =>
                    answers.e = {[ret |-> FALSE, size |-> 4]}

C6_Witness ==
    /\ Asked
    /\ SingleResult(edge)
    /\ edge.consumer.linalg /\ Producer(edge).linalg
    /\ FusedValue \in Range(edge.consumer.ins)
    /\ Len(edge.consumer.ins) = 4
    /\ Len(Producer(edge).ins) = 1
    /\ Disjoint(Range(Producer(edge).ins), Range(edge.consumer.ins))
    /\ answers.e = {[ret |-> FALSE, size |-> 4]}

\* C7: the gate returns false for every edge whose producer does not have
\* exactly one result and for every edge whose fused value has no defining
\* op, however few operands the fused computation would have.
C7_RejectsOtherProducers ==
    (Asked /\ ~SingleResult(edge)) => \A a \in answers.e : a.ret = FALSE

C7_Witness ==
    /\ Asked
    /\ HasProducer(edge)
    /\ Len(Producer(edge).results) = 2
    /\ Operands(Producer(edge)) = <<>>
    /\ Operands(edge.consumer) = <<FusedValue>>

\* C8: the gate is pure.  Whatever calls came before, for this edge or for
\* another, a call returns what every earlier call for the same edge
\* returned, and no call changes the consumer or the producer of an edge.
C8_GateIsPure ==
    [][/\ edge' = edge
       /\ other' = other
       /\ \A a \in answers.e : answers'.e = {a}
       /\ \A a \in answers.o : answers'.o = {a}]_vars

C8_Witness ==
    /\ answers.e = {[ret |-> TRUE, size |-> 3]}
    /\ answers.o = {[ret |-> FALSE, size |-> 4]}
    /\ gateResult = TRUE

\* =========================================================================
\* HoistStaticAllocOp: hoistStaticallyBoundAllocationsInFunc
\* =========================================================================

\* The function: one entry block holding `entry`, then an scf.for whose body
\* is `loop`, then `tail`, then the block's terminator: func.return, or a
\* cf.br to a second block `bb1` (which ends in func.return) when bb1 is not
\* empty.
Regions == {"entry", "loop", "bb1"}

AllocKinds == {"memref.alloc", "memref.alloca"}

\* the users of an allocation; "func.return" stands for any use by a
\* terminator (scf.yield inside the loop)
UseKinds ==
    {"linalg", "memref.dealloc", "memref.store", "memref.subview",
     "memref.load", "func.return"}

\* ShapedType::kDynamic
kDynamic == -1

\* linalg::getConstantUpperBoundForIndex failed
NoBound == 0

\* what a dimension of the input may be
DimChoices == {"static", "bounded", "unbounded"}

Operation(i, k, r, a, sh, dyn, of, sz, st, al) ==
    [id |-> i, kind |-> k, res |-> r, arg |-> a, shape |-> sh,
     dynamicSizes |-> dyn, offsets |-> of, sizes |-> sz, strides |-> st,
     alignment |-> al]

\* no alignment attribute
NoAlignment == 0

\* allocLikeOp.getAlignment(): the first allocation of a function is aligned
\* to 64 bytes, a further one carries no alignment
AlignmentOf(n) == IF n = 1 THEN 64 ELSE NoAlignment

\* the extent of the i-th dimension when static
Extent(i) == 4 + i

\* shape and dynamic-size operands of an allocation whose dimensions are
\* `dims`; the k-th dynamic size operand is value [v |-> k] and the bound
\* analysis answers 2 + k for it, or fails
ShapeOf(dims) ==
    [i \in DOMAIN dims |-> IF dims[i] = "static" THEN Extent(i) ELSE kDynamic]

DynamicSizesOf(dims) ==
    LET dynIdx == SelectSeq([i \in DOMAIN dims |-> i],
                            LAMBDA i : dims[i] # "static")
    IN  [k \in DOMAIN dynIdx |->
            [v |-> k,
             ub |-> IF dims[dynIdx[k]] = "bounded" THEN 2 + k ELSE NoBound]]

\* the ops of allocation n: the allocation, then its users in order
SiteOps(n, kind, dims, uses) ==
    <<Operation(10 * n, kind, 10 * n, 0, ShapeOf(dims), DynamicSizesOf(dims),
                <<>>, <<>>, <<>>, AlignmentOf(n))>>
    \o [j \in DOMAIN uses |->
          Operation(10 * n + j, uses[j], 0, 10 * n, <<>>, <<>>,
                    <<>>, <<>>, <<>>, NoAlignment)]

EmptyFunc == [entry |-> <<>>, loop |-> <<>>, tail |-> <<>>, bb1 |-> <<>>]

AddSite(f, region, ops) ==
    CASE region = "entry" -> [f EXCEPT !.entry = @ \o ops]
      [] region = "loop" -> [f EXCEPT !.loop = @ \o ops]
      [] region = "bb1" -> [f EXCEPT !.bb1 = @ \o ops]

\* a second allocation of the function: static, in the loop, stored to and
\* deallocated
SecondSite == SiteOps(2, "memref.alloc", <<"static">>,
                      <<"memref.store", "memref.dealloc">>)

\* a terminator is the last op of its block
ValidUses(uses) ==
    \A j \in DOMAIN uses : uses[j] = "func.return" => j = Len(uses)

Funcs ==
    {IF second THEN AddSite(AddSite(EmptyFunc, region,
                                    SiteOps(1, kind, dims, uses)),
                            "loop", SecondSite)
     ELSE AddSite(EmptyFunc, region, SiteOps(1, kind, dims, uses)) :
        region \in Regions, kind \in AllocKinds,
        dims \in SeqsUpTo(DimChoices, MaxRank),
        uses \in {u \in SeqsUpTo(UseKinds, MaxUses) : ValidUses(u)},
        second \in BOOLEAN}

\* funcOp.walk: every op of the function, in order
AllOps(f) == f.entry \o f.loop \o f.tail \o f.bb1

OpById(f, i) == CHOOSE o \in Range(AllOps(f)) : o.id = i

\* allocLikeOp->getUses() / getUsers()
UsersOf(f, name) == SelectSeq(AllOps(f), LAMBDA o : o.arg = name)

\* A slip: a load is taken for a use a sub-view can replace.
isUseReplaceableOrLoad(user) ==
    user.kind \in {"linalg", "memref.dealloc", "memref.store",
                   "memref.subview", "memref.load"}

\* isUseReplaceableWithSubview
isUseReplaceableWithSubview(user) ==
    user.kind \in {"linalg", "memref.dealloc", "memref.store",
                   "memref.subview"}

\* allocLikeOp->getBlock() == &funcOp.getBody().front()
InEntryBlock(f, o) == o \in Range(f.entry) \/ o \in Range(f.tail)

\* the walk of lines 579-592: is this op collected?
IsCandidate(AllocLikeOpType, f, o) ==
    /\ o.kind = AllocLikeOpType
    /\ ~InEntryBlock(f, o)
    /\ \/ o.dynamicSizes = <<>>
       \/ \A i \in DOMAIN UsersOf(f, o.res) :
             isUseReplaceableWithSubview(UsersOf(f, o.res)[i])

CollectAllocLikeOps(AllocLikeOpType, f) ==
    LET hit == SelectSeq(AllOps(f),
                         LAMBDA o : IsCandidate(AllocLikeOpType, f, o))
    IN  [i \in DOMAIN hit |-> hit[i].id]

\* ids and names of the ops hoisting allocation `i` creates
NewAllocId(i) == 1000 + i
NewSubViewId(i) == 2000 + i
NewDeallocId(i) == 3000 + i

\* A slip: a failed bound goes unnoticed.
NeverFailed(ub) == FALSE

\* failed(ub)   (line 522)
Failed(ub) == ub = NoBound

\* lines 508-527: the loop over allocLikeType.getShape().  The answer is
\* [ok, staticShape, subviewSizes]; ok = FALSE is the return of std::nullopt.
RECURSIVE BoundShape(_, _, _, _)
BoundShape(shape, dynamicSizes, index, acc) ==
    IF shape = <<>> THEN acc
    ELSE LET dimSize == Head(shape)
         IN  IF dimSize # kDynamic
             THEN BoundShape(Tail(shape), dynamicSizes, index,
                    [acc EXCEPT
                       !.staticShape = Append(@, dimSize),
                       !.subviewSizes = Append(@, [attr |-> dimSize])])
             ELSE LET dynamicSize == dynamicSizes[index + 1]
                  IN  IF Failed(dynamicSize.ub)
                      THEN [acc EXCEPT !.ok = FALSE]
                      ELSE BoundShape(Tail(shape), dynamicSizes, index + 1,
                             [acc EXCEPT
                                !.staticShape = Append(@, dynamicSize.ub),
                                !.subviewSizes =
                                    Append(@, [value |-> dynamicSize.v])])

\* builder.setInsertionPointToStart(&funcOp.getBody().front()); create
InsertAtEntryStart(f, o) == [f EXCEPT !.entry = <<o>> \o @]

\* builder.setInsertionPoint(funcOp.getBody().front().getTerminator()); create
InsertBeforeEntryTerminator(f, o) == [f EXCEPT !.tail = Append(@, o)]

\* builder.setInsertionPoint(allocLikeOp); create
InsertBefore(f, i, o) ==
    LET ins(ops) ==
            IF \E k \in DOMAIN ops : ops[k].id = i
            THEN LET k == CHOOSE k \in DOMAIN ops : ops[k].id = i
                 IN  SubSeq(ops, 1, k - 1) \o <<o>> \o SubSeq(ops, k, Len(ops))
            ELSE ops
    IN  [entry |-> ins(f.entry), loop |-> ins(f.loop),
         tail |-> ins(f.tail), bb1 |-> ins(f.bb1)]

\* A slip: the deallocation is created for the stack allocation.
IsSameAsAllocaOp(AllocLikeOpType) == AllocLikeOpType = "memref.alloca"

\* std::is_same<AllocLikeOpType, memref::AllocOp>::value
IsSameAsAllocOp(AllocLikeOpType) == AllocLikeOpType = "memref.alloc"

\* A slip: the alignment of the original allocation is not carried over.
DroppedAlignment(allocLikeOp) == NoAlignment

\* alignmentAttr   (lines 490-491)
alignmentAttr(allocLikeOp) == allocLikeOp.alignment

\* A slip: the sub-view starts one element into every dimension.
OneOffsets(rank) == [d \in 1..rank |-> 1]

\* offsets, strides   (lines 528-531)
ZeroOffsets(rank) == [d \in 1..rank |-> 0]

UnitStrides(rank) == [d \in 1..rank |-> 1]

\* A slip: the entry allocation is handed back in place of the sub-view.
ReturnAllocation(allocation, subviewOp) == allocation.res

\* return subviewOp   (line 550)
ReturnSubView(allocation, subviewOp) == subviewOp.res

\* hoistOneStaticallyBoundAllocation (lines 484-551): [ok, func, value]
hoistOneStaticallyBoundAllocation(AllocLikeOpType, f, allocLikeOp) ==
    LET i == allocLikeOp.id
        dealloc == Operation(NewDeallocId(i), "memref.dealloc", 0,
                             NewAllocId(i), <<>>, <<>>, <<>>, <<>>, <<>>,
                             NoAlignment)
    IN  IF allocLikeOp.dynamicSizes = <<>>
        THEN LET allocation ==
                     Operation(NewAllocId(i), AllocLikeOpType, NewAllocId(i),
                               0, allocLikeOp.shape, <<>>, <<>>, <<>>, <<>>,
                               alignmentAttr(allocLikeOp))
                 f1 == InsertAtEntryStart(f, allocation)
                 f2 == IF IsSameAsAllocOp(AllocLikeOpType)
                       THEN InsertBeforeEntryTerminator(f1, dealloc)
                       ELSE f1
             IN  [ok |-> TRUE, func |-> f2, value |-> allocation.res]
        ELSE LET b == BoundShape(allocLikeOp.shape, allocLikeOp.dynamicSizes,
                                 0, [ok |-> TRUE, staticShape |-> <<>>,
                                     subviewSizes |-> <<>>])
                 rank == Len(allocLikeOp.shape)
             IN  IF ~b.ok
                 THEN [ok |-> FALSE, func |-> f, value |-> 0]
                 ELSE LET allocation ==
                              Operation(NewAllocId(i), AllocLikeOpType,
                                        NewAllocId(i), 0, b.staticShape,
                                        <<>>, <<>>, <<>>, <<>>,
                                        alignmentAttr(allocLikeOp))
                          subviewOp ==
                              Operation(NewSubViewId(i), "memref.subview",
                                        NewSubViewId(i), NewAllocId(i),
                                        <<>>, <<>>,
                                        ZeroOffsets(rank),
                                        b.subviewSizes,
                                        UnitStrides(rank), NoAlignment)
                          f1 == InsertAtEntryStart(f, allocation)
                          f2 == InsertBefore(f1, i, subviewOp)
                          f3 == IF IsSameAsAllocOp(AllocLikeOpType)
                                THEN InsertBeforeEntryTerminator(f2, dealloc)
                                ELSE f2
                      IN  [ok |-> TRUE, func |-> f3,
                           value |-> ReturnSubView(allocation, subviewOp)]

MapOps(f, G(_)) ==
    [entry |-> G(f.entry), loop |-> G(f.loop),
     tail |-> G(f.tail), bb1 |-> G(f.bb1)]

\* rewriter.replaceOp(allocLikeOp, replacementVal)
ReplaceOp(f, allocLikeOp, replacementVal) ==
    LET G(ops) ==
            LET kept == SelectSeq(ops, LAMBDA o : o.id # allocLikeOp.id)
            IN  [k \in DOMAIN kept |->
                    IF kept[k].arg = allocLikeOp.res
                    THEN [kept[k] EXCEPT !.arg = replacementVal]
                    ELSE kept[k]]
    IN  MapOps(f, G)

\* A slip: the recorded deallocs are left in place.
KeepOps(f, ids) == f

\* rewriter.eraseOp on every op whose id is in `ids`
EraseOps(f, ids) ==
    LET G(ops) == SelectSeq(ops, LAMBDA o : o.id \notin ids)
    IN  MapOps(f, G)

\* one iteration of the loop of lines 595-624: [ok, func]
HoistCandidate(AllocLikeOpType, f, i) ==
    LET allocLikeOp == OpById(f, i)
        users == UsersOf(f, allocLikeOp.res)
        deallocOps == {users[k].id : k \in
                         {k \in DOMAIN users :
                            users[k].kind = "memref.dealloc"}}
        replacement ==
            hoistOneStaticallyBoundAllocation(AllocLikeOpType, f, allocLikeOp)
    IN  IF ~replacement.ok
        THEN [ok |-> FALSE, func |-> f]
        ELSE [ok |-> TRUE,
              func |-> EraseOps(ReplaceOp(replacement.func, allocLikeOp,
                                          replacement.value),
                                deallocOps)]

\* A slip: the op instantiates the hoister for the other allocation type.
InstantiatedAlloca == "memref.alloca"

\* hoistStaticallyBoundAllocationsInFunc<memref::AllocOp>   (line 661)
InstantiatedType == "memref.alloc"

\* The hoister is reached through HoistStaticAllocOp::applyToOne, which
\* instantiates it for memref.alloc (line 661).
InitHoist ==
    /\ allocType = InstantiatedType
    /\ func0 \in Funcs
    /\ func = func0
    /\ hpc = "collect"
    /\ allocLikeOps = <<>>
    /\ hlog = <<>>
    /\ hresults = <<>>
    /\ hstatus = NoStatus

\* HoistStaticAllocOp::applyToOne instantiates the hoister for memref.alloc
\* (line 661); lines 576-592 collect the candidates
Collect ==
    /\ hpc = "collect"
    /\ allocLikeOps' = CollectAllocLikeOps(allocType, func)
    /\ hpc' = "hoist"
    /\ UNCHANGED <<allocType, func0, func, hlog, hresults, hstatus>>
    /\ UNCHANGED <<applyVars, gateVars, opsVars, bindVars, bufVars>>

\* A slip: the loop is left at the first allocation that cannot be bounded.
RemainingNone(ok, ops) == IF ok THEN Tail(ops) ELSE <<>>

\* if (!replacement) continue;   (lines 613-614): on to the next candidate
Remaining(ok, ops) == Tail(ops)

\* lines 595-624, one candidate
HoistNext ==
    /\ hpc = "hoist"
    /\ allocLikeOps # <<>>
    /\ LET r == HoistCandidate(allocType, func, Head(allocLikeOps))
       IN  /\ func' = r.func
           /\ hlog' = Append(hlog, [id |-> Head(allocLikeOps), ok |-> r.ok])
           /\ allocLikeOps' = Remaining(r.ok, allocLikeOps)
    /\ UNCHANGED <<allocType, func0, hpc, hresults, hstatus>>
    /\ UNCHANGED <<applyVars, gateVars, opsVars, bindVars, bufVars>>

\* lines 662-663
HoistDone ==
    /\ hpc = "hoist"
    /\ allocLikeOps = <<>>
    /\ hresults' = Append(hresults, "funcOp")
    /\ hstatus' = [kind |-> "success", msg |-> ""]
    /\ hpc' = "done"
    /\ UNCHANGED <<allocType, func0, func, allocLikeOps, hlog>>
    /\ UNCHANGED <<applyVars, gateVars, opsVars, bindVars, bufVars>>

\* hoistStaticallyBoundAllocationsInFunc is also instantiated for
\* memref.alloca (lines 648-653) and called as a function, on its own.
InitHoistFunc ==
    /\ allocType \in AllocKinds
    /\ func0 \in Funcs
    /\ func = func0
    /\ hpc = "collect"
    /\ allocLikeOps = <<>>
    /\ hlog = <<>>
    /\ hresults = <<>>
    /\ hstatus = NoStatus

\* line 625: the function returns, there is no result
HoistReturn ==
    /\ hpc = "hoist"
    /\ allocLikeOps = <<>>
    /\ hpc' = "returned"
    /\ UNCHANGED <<allocType, func0, func, allocLikeOps, hlog, hresults,
                   hstatus>>
    /\ UNCHANGED <<applyVars, gateVars, opsVars, bindVars, bufVars>>

\* -------------------------------------------------------------------------
\* Hoister claims
\* -------------------------------------------------------------------------

\* the ids of the allocations of a function
AllocIds(f) ==
    {o.id : o \in {o \in Range(AllOps(f)) : o.kind \in AllocKinds}}

\* the allocation with id i and its users, each with the region it is in
Around(f, i) ==
    LET G(ops) == SelectSeq(ops, LAMBDA o : o.id = i \/ o.arg = i)
    IN  MapOps(f, G)

CreatedFor(f, i) ==
    {o \in Range(AllOps(f)) :
        o.id \in {NewAllocId(i), NewSubViewId(i), NewDeallocId(i)}}

\* the bound analysis fails on some dynamic size of the allocation
SomeBoundFails(o) ==
    \E k \in DOMAIN o.dynamicSizes : o.dynamicSizes[k].ub = NoBound

\* ... although an earlier dimension has been bounded
EarlierBounded(o) ==
    \E k \in DOMAIN o.dynamicSizes :
        /\ o.dynamicSizes[k].ub = NoBound
        /\ \E j \in 1..(k - 1) : o.dynamicSizes[j].ub # NoBound

Unboundable(f, i) ==
    /\ IsCandidate("memref.alloc", f, OpById(f, i))
    /\ SomeBoundFails(OpById(f, i))

\* C3: a candidate with dynamic sizes one of whose bounds cannot be computed
\* is never rewritten: at every step nothing has been created for it (no
\* entry allocation, no sub-view, no deallocation) and the allocation and its
\* users, deallocations included, are where and what they were in the input,
\* whatever happens to the other allocation of the function.
C3_UnboundedLeftUntouched ==
    hpc # "idle" =>
        \A i \in AllocIds(func0) :
            Unboundable(func0, i) =>
                /\ CreatedFor(func, i) = {}
                /\ Around(func, i) = Around(func0, i)

\* the hoister has given up on an allocation whose first dimension it had
\* bounded, and which has a deallocation user, while it has hoisted the
\* other allocation of the function
C3_Witness ==
    /\ hpc = "done"
    /\ \E i \in AllocIds(func0) :
          /\ Unboundable(func0, i)
          /\ EarlierBounded(OpById(func0, i))
          /\ \E k \in DOMAIN hlog : hlog[k] = [id |-> i, ok |-> FALSE]
          /\ \E o \in Range(AllOps(func)) :
                o.arg = i /\ o.kind = "memref.dealloc"
    /\ \E k \in DOMAIN hlog : hlog[k].ok
    /\ func # func0

\* the ops of f with id i
WithId(f, i) == SelectSeq(AllOps(f), LAMBDA o : o.id = i)

\* the candidate processed last and what was answered for it
LastHoisted == OpById(func0, hlog[Len(hlog)].id)

JustHoisted(static) ==
    /\ hlog # <<>>
    /\ hlog[Len(hlog)].ok
    /\ (LastHoisted.dynamicSizes = <<>>) = static

\* the block that holds the function's terminator (func.return), without it
ReturnBlock(f) == IF f.bb1 # <<>> THEN f.bb1 ELSE f.entry \o f.tail

\* C12: right after a candidate without dynamic sizes is hoisted, the
\* function holds exactly one new allocation, of the original's kind, type
\* and alignment, as the first op of the entry block; for memref.alloc it
\* holds exactly one dealloc of the new allocation, placed immediately before
\* the function's terminator; for memref.alloca it holds no new dealloc.
C12_StaticHoistShape ==
    JustHoisted(TRUE) =>
        LET i == LastHoisted.id
            new == func.entry[1]
        IN  /\ Len(WithId(func, NewAllocId(i))) = 1
            /\ new.id = NewAllocId(i)
            /\ new.kind = LastHoisted.kind
            /\ new.shape = LastHoisted.shape
            /\ new.dynamicSizes = <<>>
            /\ new.alignment = LastHoisted.alignment
            /\ WithId(func, NewSubViewId(i)) = <<>>
            /\ IF LastHoisted.kind = "memref.alloc"
               THEN /\ Len(WithId(func, NewDeallocId(i))) = 1
                    /\ LET d == ReturnBlock(func)[Len(ReturnBlock(func))]
                       IN  /\ d.id = NewDeallocId(i)
                           /\ d.kind = "memref.dealloc"
                           /\ d.arg = new.res
               ELSE WithId(func, NewDeallocId(i)) = <<>>

\* the number of dynamic dimensions among the first d of a shape
DynamicUpTo(shape, d) ==
    Cardinality({e \in 1..d : shape[e] = kDynamic})

\* C13: right after a candidate with dynamic sizes, all of them bounded, is
\* hoisted, the function holds one new allocation as first op of the entry
\* block whose shape keeps each static extent and has, for the k-th dynamic
\* dimension, the bound of the k-th dynamic size operand; and one sub-view of
\* it with offset 0 and stride 1 in every dimension, whose size is the
\* static extent or, for the k-th dynamic dimension, the k-th dynamic size
\* operand.  The users of the original allocation use the sub-view, and
\* nothing but the sub-view and the new dealloc uses the new allocation.
C13_BoundedHoistShape ==
    JustHoisted(FALSE) =>
        LET old == LastHoisted
            i == old.id
            rank == Len(old.shape)
            new == func.entry[1]
            views == WithId(func, NewSubViewId(i))
            K(d) == DynamicUpTo(old.shape, d)
        IN  /\ Len(WithId(func, NewAllocId(i))) = 1
            /\ new.id = NewAllocId(i)
            /\ new.kind = old.kind
            /\ new.dynamicSizes = <<>>
            /\ Len(new.shape) = rank
            /\ \A d \in 1..rank :
                  new.shape[d] = IF old.shape[d] # kDynamic THEN old.shape[d]
                                 ELSE old.dynamicSizes[K(d)].ub
            /\ Len(views) = 1
            /\ views[1].kind = "memref.subview"
            /\ views[1].arg = new.res
            /\ views[1].offsets = [d \in 1..rank |-> 0]
            /\ views[1].strides = [d \in 1..rank |-> 1]
            /\ Len(views[1].sizes) = rank
            /\ \A d \in 1..rank :
                  views[1].sizes[d] =
                      IF old.shape[d] # kDynamic THEN [attr |-> old.shape[d]]
                      ELSE [value |-> old.dynamicSizes[K(d)].v]
            /\ UsersOf(func, old.res) = <<>>
            /\ \A k \in DOMAIN UsersOf(func0, old.res) :
                  LET u == UsersOf(func0, old.res)[k]
                  IN  u.kind # "memref.dealloc" =>
                         WithId(func, u.id) = <<[u EXCEPT !.arg = views[1].res]>>
            /\ \A k \in DOMAIN UsersOf(func, new.res) :
                  UsersOf(func, new.res)[k].id
                      \in {NewSubViewId(i), NewDeallocId(i)}

\* an allocation with two bounded dynamic dimensions, stored to, is hoisted
C13_Witness ==
    /\ JustHoisted(FALSE)
    /\ LastHoisted.shape = <<kDynamic, kDynamic>>
    /\ func.entry[1].shape = <<3, 4>>
    /\ \E o \in Range(AllOps(func)) :
          o.kind = "memref.store" /\ o.arg = NewSubViewId(LastHoisted.id)
    /\ hpc = "returned"

\* the allocations the walk has collected
Collected == Range(allocLikeOps) \cup {hlog[k].id : k \in DOMAIN hlog}

\* what the claim asks of a candidate of the instantiation that runs
Qualifies(o) ==
    /\ o.kind = allocType
    /\ o \notin Range(func0.entry)
    /\ \/ o.dynamicSizes = <<>>
       \/ \A u \in Range(UsersOf(func0, o.res)) :
             u.kind \in {"linalg", "memref.dealloc", "memref.store",
                         "memref.subview"}

\* C14: the allocations collected are exactly those of the hoister's kind
\* that are outside the entry block and either have no dynamic size or have
\* only linalg ops, deallocs, stores and sub-views as users; every other
\* allocation, one in the entry block or a dynamically sized one with another
\* kind of user among them, stays as it was, with its users.
C14_CandidatesExactly ==
    /\ hpc \notin {"idle", "collect"} =>
          Collected = {i \in AllocIds(func0) : Qualifies(OpById(func0, i))}
    /\ hpc # "idle" =>
          \A i \in AllocIds(func0) :
              ~Qualifies(OpById(func0, i)) =>
                  /\ i \notin Collected
                  /\ CreatedFor(func, i) = {}
                  /\ Around(func, i) = Around(func0, i)

\* a dynamically sized, bounded allocation in the loop with a store and a
\* load is passed over while the other allocation is hoisted
C14_Witness ==
    /\ hpc = "returned"
    /\ allocType = "memref.alloc"
    /\ func # func0
    /\ \E i \in AllocIds(func0) :
          LET o == OpById(func0, i)
          IN  /\ o \in Range(func0.loop)
              /\ o.kind = "memref.alloc"
              /\ o.dynamicSizes # <<>>
              /\ ~SomeBoundFails(o)
              /\ {u.kind : u \in Range(UsersOf(func0, i))}
                     = {"memref.store", "memref.load"}
              /\ i \notin Collected

\* the allocations hoisted so far
Hoisted == {hlog[k].id : k \in {k \in DOMAIN hlog : hlog[k].ok}}

\* C15: once an allocation is hoisted, and from then on, the function holds
\* neither the original allocation nor a use of its value, each of its former
\* users other than deallocs is still there and uses another value, and
\* every dealloc that used it in the input is gone.
C15_OriginalGone ==
    \A i \in Hoisted :
        /\ WithId(func, i) = <<>>
        /\ UsersOf(func, OpById(func0, i).res) = <<>>
        /\ \A u \in Range(UsersOf(func0, OpById(func0, i).res)) :
              IF u.kind = "memref.dealloc"
              THEN WithId(func, u.id) = <<>>
              ELSE /\ Len(WithId(func, u.id)) = 1
                   /\ WithId(func, u.id)[1].arg
                         \in {NewAllocId(i), NewSubViewId(i)}

\* a bounded allocation with a store and a dealloc, and the static one after
\* it, are both hoisted
C15_Witness ==
    /\ hpc = "done"
    /\ Hoisted = {10, 20}
    /\ OpById(func0, 10).dynamicSizes # <<>>
    /\ {u.kind : u \in Range(UsersOf(func0, 10))}
           = {"memref.store", "memref.dealloc"}

\* C16: HoistStaticAllocOp never returns a failure.  When it is done it has
\* returned success with the function as its single result, every candidate
\* of the input has been processed, in order, those with a dynamic size that
\* cannot be bounded have been skipped and all the others hoisted.
C16_NeverFails ==
    /\ hstatus.kind \in {"none", "success"}
    /\ hpc = "done" =>
          /\ hstatus.kind = "success"
          /\ hresults = <<"funcOp">>
          /\ [k \in DOMAIN hlog |-> hlog[k].id]
                = CollectAllocLikeOps("memref.alloc", func0)
          /\ \A k \in DOMAIN hlog :
                hlog[k].ok = ~SomeBoundFails(OpById(func0, hlog[k].id))
          /\ \A i \in Hoisted : Len(WithId(func, NewAllocId(i))) = 1

\* the first candidate could not be bounded and was skipped, the second was
\* hoisted, and success was returned
C16_Witness ==
    /\ hpc = "done"
    /\ hstatus.kind = "success"
    /\ hlog = <<[id |-> 10, ok |-> FALSE], [id |-> 20, ok |-> TRUE]>>
    /\ func.entry # <<>>

\* an allocation of the input, of the given kinds, that qualifies for
\* hoisting and whose dynamic sizes can all be bounded
Hoistable(o, kinds) ==
    /\ o.kind \in kinds
    /\ o \notin Range(func0.entry)
    /\ \/ o.dynamicSizes = <<>>
       \/ \A u \in Range(UsersOf(func0, o.res)) :
             u.kind \in {"linalg", "memref.dealloc", "memref.store",
                         "memref.subview"}
    /\ ~SomeBoundFails(o)

\* the allocation is gone from where it was and an allocation made for it is
\* in the entry block
Relocated(i) ==
    /\ WithId(func, i) = <<>>
    /\ \E k \in DOMAIN func.entry : func.entry[k].id = NewAllocId(i)

\* C17 as stated: when HoistStaticAllocOp is done, every memref.alloc and
\* every memref.alloca that qualifies has been relocated to the entry block.
C17_Original ==
    hpc = "done" =>
        \A i \in AllocIds(func0) :
            Hoistable(OpById(func0, i), {"memref.alloc", "memref.alloca"})
                => Relocated(i)

\* C17 as amended: when HoistStaticAllocOp is done, every memref.alloc that
\* qualifies has been relocated to the entry block, and every memref.alloca
\* is where and what it was, with its users.
C17_AllocsOnly ==
    /\ hpc = "done" =>
          \A i \in AllocIds(func0) :
              Hoistable(OpById(func0, i), {"memref.alloc"}) => Relocated(i)
    /\ hpc # "idle" =>
          \A i \in AllocIds(func0) :
              OpById(func0, i).kind = "memref.alloca" =>
                  /\ CreatedFor(func, i) = {}
                  /\ Around(func, i) = Around(func0, i)

\* a static memref.alloca in the loop is still there when the op is done,
\* and the memref.alloc after it is hoisted
C17_Witness ==
    /\ hpc = "done"
    /\ Hoistable(OpById(func0, 10), {"memref.alloca"})
    /\ OpById(func0, 10) \in Range(func.loop)
    /\ Relocated(20)

\* ------------------------------ execution -------------------------------

\* the buffers an execution may name
Buffers(f) == {o.res : o \in {o \in Range(AllOps(f)) : o.res # 0}}

\* the ops an execution of the function runs, in order
Executed(f) ==
    LET RECURSIVE Iter(_)
        Iter(n) == IF n = 0 THEN <<>> ELSE f.loop \o Iter(n - 1)
    IN  f.entry \o Iter(LoopTrip) \o f.tail \o f.bb1

InitState(f) ==
    [mem |-> [b \in Buffers(f) |-> [state |-> "none", val |-> {}]],
     view |-> [b \in Buffers(f) |-> b],
     obs |-> <<>>,
     ret |-> {},
     ub |-> FALSE]

\* one op.  A buffer holds {} until it is stored to, then {id of the store}.
\* Using or freeing a buffer that is not live is undefined behaviour.
Step(o, st) ==
    LET b == st.view[o.arg]
        live == st.mem[b].state = "live"
    IN  CASE o.kind \in AllocKinds ->
               [st EXCEPT !.mem[o.res] = [state |-> "live", val |-> {}]]
          [] o.kind = "memref.subview" ->
               IF o.res = 0 THEN st
               ELSE [st EXCEPT !.view[o.res] = b]
          [] o.kind = "memref.store" ->
               IF live THEN [st EXCEPT !.mem[b].val = {o.id}]
               ELSE [st EXCEPT !.ub = TRUE]
          [] o.kind = "linalg" ->
               IF live
               THEN [st EXCEPT !.obs = Append(@, [at |-> o.id,
                                                  val |-> st.mem[b].val]),
                               !.mem[b].val = {o.id}]
               ELSE [st EXCEPT !.ub = TRUE]
          [] o.kind = "memref.load" ->
               IF live
               THEN [st EXCEPT !.obs = Append(@, [at |-> o.id,
                                                  val |-> st.mem[b].val])]
               ELSE [st EXCEPT !.ub = TRUE]
          [] o.kind = "memref.dealloc" ->
               IF live THEN [st EXCEPT !.mem[b].state = "freed"]
               ELSE [st EXCEPT !.ub = TRUE]
          [] o.kind = "func.return" ->
               [st EXCEPT !.ret = {b}]

RECURSIVE RunOps(_, _)
RunOps(ops, st) ==
    IF ops = <<>> \/ st.ub THEN st
    ELSE RunOps(Tail(ops), Step(Head(ops), st))

\* the caller loads from the buffer the function hands back
CallerLoads(st) ==
    IF st.ub \/ st.ret = {} THEN st
    ELSE LET b == CHOOSE b \in st.ret : TRUE
         IN  IF st.mem[b].state = "live"
             THEN [st EXCEPT !.obs = Append(@, [at |-> 0,
                                                val |-> st.mem[b].val])]
             ELSE [st EXCEPT !.ub = TRUE]

Run(f) == CallerLoads(RunOps(Executed(f), InitState(f)))

\* every load of a defined execution of f0 sees the same value in f1; a load
\* of a buffer nothing was stored to may see anything
Equivalent(f0, f1) ==
    LET r0 == Run(f0)
        r1 == Run(f1)
    IN  ~r0.ub =>
            /\ ~r1.ub
            /\ Len(r1.obs) = Len(r0.obs)
            /\ \A k \in DOMAIN r0.obs :
                  /\ r1.obs[k].at = r0.obs[k].at
                  /\ r0.obs[k].val # {} => r1.obs[k].val = r0.obs[k].val

AllStatic(f) == \A o \in Range(AllOps(f)) : o.dynamicSizes = <<>>

\* C4: once the static allocations of a function are hoisted, every load of
\* every execution returns what it returned before.
C4_StaticHoistPreservesLoads ==
    (hpc = "done" /\ AllStatic(func0) /\ \E k \in DOMAIN hlog : hlog[k].ok)
        => Equivalent(func0, func)

\* the positions of an execution at which the buffer hoisted for i is used:
\* through the entry allocation or through the sub-view that replaced i
UsesOfHoisted(ex, i) ==
    {p \in DOMAIN ex :
        /\ ex[p].arg \in {NewAllocId(i), NewSubViewId(i)}
        /\ ex[p].id \notin {NewSubViewId(i), NewDeallocId(i)}}

DeallocsOfHoisted(ex, i) == {p \in DOMAIN ex : ex[p].id = NewDeallocId(i)}

\* C26: in the execution of the rewritten function the deallocation
\* inserted for a hoisted heap allocation runs, and runs after every use of
\* the hoisted buffer, uses outside the entry block and by the terminator
\* included.
C26_DeallocAfterEveryUse ==
    (hpc = "done" /\ allocType = "memref.alloc") =>
        \A i \in Hoisted :
            LET ex == Executed(func)
            IN  /\ DeallocsOfHoisted(ex, i) # {}
                /\ \A u \in UsesOfHoisted(ex, i) :
                    \A d \in DeallocsOfHoisted(ex, i) : u < d

\* the same on functions of one block that do not hand the buffer on
C26_OnOneBlock ==
    (func0.bb1 = <<>> /\ \A o \in Range(AllOps(func0)) : o.kind # "func.return")
        => C26_DeallocAfterEveryUse

\* the deallocations among ops that free the buffer hoisted for i
FreesOfHoisted(ops, i) ==
    {p \in DOMAIN ops :
        /\ ops[p].kind = "memref.dealloc"
        /\ ops[p].arg \in {NewAllocId(i), NewSubViewId(i)}}

\* C27: every heap allocation the hoister created has exactly one
\* deallocation in the function, the one inserted before the terminator of
\* the entry block, and an execution frees the buffer exactly once.
C27_ExactlyOneDealloc ==
    (hpc = "done" /\ allocType = "memref.alloc") =>
        \A i \in Hoisted :
            /\ Cardinality(FreesOfHoisted(AllOps(func), i)) = 1
            /\ \A p \in FreesOfHoisted(AllOps(func), i) :
                /\ AllOps(func)[p].id = NewDeallocId(i)
                /\ AllOps(func)[p] \in Range(func.tail)
            /\ Cardinality(FreesOfHoisted(Executed(func), i)) = 1

\* two allocations were hoisted, one of which had two deallocations
C27_Witness ==
    /\ hpc = "done" /\ allocType = "memref.alloc"
    /\ Cardinality(Hoisted) = 2
    /\ Cardinality(FreesOfHoisted(AllOps(func0), 10)) = 0
    /\ Cardinality({p \in DOMAIN AllOps(func0) :
                        /\ AllOps(func0)[p].kind = "memref.dealloc"
                        /\ AllOps(func0)[p].arg = 10}) = 2

\* what the dynamic size operands of an allocation may be at run time when
\* the bound analysis is sound: operand k is at most its bound
RuntimeSizes(allocLikeOp) ==
    LET dyn == allocLikeOp.dynamicSizes
    IN  {rt \in [DOMAIN dyn -> 0..(MaxRank + 3)] :
            \A k \in DOMAIN dyn : rt[k] <= dyn[k].ub}

\* the extent of dimension d of a sub-view at run time
SizeAt(view, d, rt) ==
    IF "attr" \in DOMAIN view.sizes[d] THEN view.sizes[d].attr
    ELSE rt[view.sizes[d].value]

\* C28: the sub-view that replaces a hoisted allocation with dynamic sizes
\* has the rank of the allocation and lies within the entry allocation:
\* whatever the sizes are at run time within their bounds, offset plus size
\* times stride is at most the allocated extent in every dimension.
C28_SubViewWithinAllocation ==
    JustHoisted(FALSE) =>
        LET old == LastHoisted
            rank == Len(old.shape)
            new == OpById(func, NewAllocId(old.id))
            view == OpById(func, NewSubViewId(old.id))
        IN  /\ Len(view.sizes) = rank
            /\ Len(view.offsets) = rank
            /\ Len(view.strides) = rank
            /\ Len(new.shape) = rank
            /\ \A rt \in RuntimeSizes(old) :
                \A d \in 1..rank :
                    /\ new.shape[d] # kDynamic
                    /\ view.offsets[d] + SizeAt(view, d, rt) * view.strides[d]
                            <= new.shape[d]

\* a hoisted allocation of full rank whose two dynamic sizes have different
\* bounds
C28_Witness ==
    /\ JustHoisted(FALSE)
    /\ Len(LastHoisted.dynamicSizes) = 2
    /\ LastHoisted.dynamicSizes[1].ub # LastHoisted.dynamicSizes[2].ub
    /\ \E rt \in RuntimeSizes(LastHoisted) :
            \A k \in DOMAIN rt : rt[k] = LastHoisted.dynamicSizes[k].ub

\* =========================================================================
\* ShareForallOperandsOp, TransformBufferizeOp,
\* TransformEliminateEmptyTensorsOp: what they return
\* =========================================================================

\* One shared output of the scf.forall: the number of uses of the value,
\* whether one of its users is a tensor.extract_slice, and whether the
\* forall's terminator yields a matching tensor.parallel_insert_slice.
\* source is the value the extract_slice reads: toShare until the slice is
\* promoted to the block argument of the output.
ToShare == [value |-> "toShare", of |-> -1]

BbArg(outputIdx) == [value |-> "bbArg", of |-> outputIdx]

Output(u, s, m) == [uses |-> u, slice |-> s, matching |-> m, source |-> ToShare]

Outputs ==
    {Output(1, FALSE, FALSE), Output(3, TRUE, TRUE), Output(2, FALSE, FALSE),
     Output(2, TRUE, FALSE), Output(2, TRUE, TRUE)}

ShareArgs ==
    [outputs : SeqsUpTo(Outputs, MaxOutputs),
     share_operands : SeqsUpTo(-1..MaxOutputs, MaxShare)]

\* TransformBufferizeOp: the payload ops of the target handle (TRUE for a
\* ModuleOp) and the unit attributes of the op.
BufferizeArgs ==
    [payload : SeqsUpTo(BOOLEAN, MaxOutputs),
     target_gpu : BOOLEAN,
     test_analysis_only : BOOLEAN]

\* TransformEliminateEmptyTensorsOp: the payload ops of the target handle;
\* TRUE where eliminateEmptyTensors succeeds on the payload op.
EliminateArgs == [payload : SeqsUpTo(BOOLEAN, MaxOutputs)]

Success == [kind |-> "success", msg |-> ""]

\* DiagnosedSilenceableFailure::definiteFailure()
DefiniteFailure == [kind |-> "definite", msg |-> ""]

\* the silenceable tier, as the commented-out returns had it
IdxOverflowSilenceable ==
    [kind |-> "silenceable", msg |-> "operand idx overflow"]

\* mlir::emitDefiniteFailure(forallOp, "operand idx overflow")
IdxOverflow == [kind |-> "definite", msg |-> "operand idx overflow"]

\* mlir::emitDefiniteFailure(state.getTopLevel(), "requires exactly ...")
NotASingleModule ==
    [kind |-> "definite",
     msg |-> "requires exactly a single HAL::ExecutableOp or HAL::ExecutableVariantOp target op."]

\* SmallVector<int64_t> shareOperands, after the empty case filled it in
shareOperands(a) ==
    IF a.share_operands = <<>>
    THEN [i \in 1..Len(a.outputs) |-> i - 1]
    ELSE a.share_operands

\* the list the loop iterates: the attribute itself
getShareOperands(a) == a.share_operands

\* an output whose slice and insert match, whatever its use count
ShareableAnyUses(o) == o.slice /\ o.matching

\* the three tests an output passes before its slice is promoted: exactly
\* two uses, an extract_slice among the users, a matching insert
Shareable(o) == o.uses = 2 /\ o.slice /\ o.matching

\* extractSliceOp.getSourceMutable().assign(bbArg): the slice reads the
\* block argument of the output, and toShare has lost that use
Promote(outs, outputIdx) ==
    [outs EXCEPT ![outputIdx + 1].source = BbArg(outputIdx),
                 ![outputIdx + 1].uses = @ - 1]

\* a failure that undoes the rewrites of the earlier indices
RolledBack(before, now) == before

\* the IR a failing return leaves: updateRootInPlace wrote it in place
KeptOnFailure(before, now) == now

\* the loop over idxs, from its k-th entry on: the answer and the outputs
\* as rewritten so far
RECURSIVE ShareLoop(_, _, _, _)
ShareLoop(before, outs, idxs, k) ==
    IF k > Len(idxs) THEN [status |-> Success, outputs |-> outs]
    ELSE LET outputIdx == idxs[k]
         IN  IF outputIdx < 0 \/ outputIdx >= Len(outs)
             THEN [status |-> IdxOverflow,
                   outputs |-> KeptOnFailure(before, outs)]
             ELSE IF ~Shareable(outs[outputIdx + 1])
                  THEN ShareLoop(before, outs, idxs, k + 1)
                  ELSE ShareLoop(before, Promote(outs, outputIdx), idxs, k + 1)

InitOps ==
    /\ \/ top = "share" /\ targs \in ShareArgs
       \/ top = "bufferize" /\ targs \in BufferizeArgs
       \/ top = "eliminate" /\ targs \in EliminateArgs
    /\ tpc = "entry"
    /\ tpayload = IF top = "share" THEN targs.outputs ELSE <<>>
    /\ tresults = <<>>
    /\ tstatus = NoStatus

IdleOps ==
    /\ top = "none"
    /\ targs = "none"
    /\ tpc = "idle"
    /\ tpayload = <<>>
    /\ tresults = <<>>
    /\ tstatus = NoStatus

\* ShareForallOperandsOp::applyToOne
ShareForallOperands ==
    /\ top = "share" /\ tpc = "entry"
    /\ LET r == ShareLoop(targs.outputs, targs.outputs,
                           getShareOperands(targs), 1)
       IN  /\ tstatus' = r.status
           /\ tpayload' = r.outputs
           /\ tresults' = IF r.status = Success THEN <<"forallOp">> ELSE <<>>
    /\ tpc' = "done"
    /\ UNCHANGED <<top, targs, applyVars, gateVars, hoistVars, bindVars, bufVars>>

\* A slip: the failure of step 1 is looked at.
Step1FailureChecked(result) == ~result

\* failed(result) of step 1 as the op sees it: result is assigned and never
\* read, the checks after it are commented out (lines 1479-1491)
Step1Failure(result) == FALSE

\* mlir::emitDefiniteFailure(..., "greedy pattern application failed")
GreedyPatternFailed ==
    [kind |-> "definite", msg |-> "greedy pattern application failed"]

\* what TransformBufferizeOp::apply leaves: the steps that ran, in order,
\* and what the host answered in them
Bufferized(steps, result, bufferized, passesRan) ==
    [steps |-> steps, result |-> result, bufferized |-> bufferized,
     passesRan |-> passesRan]

\* TransformBufferizeOp::apply; applyOpPatternsAndFold, runOneShotBufferize
\* and the pass manager are the host's and may fail
TransformBufferize ==
    /\ top = "bufferize" /\ tpc = "entry"
    /\ \E result \in BOOLEAN, bufferized \in BOOLEAN, passesRan \in BOOLEAN :
        IF Len(targs.payload) # 1 \/ ~targs.payload[1]
        THEN /\ tstatus' = NotASingleModule /\ tresults' = <<>>
             /\ tpayload' = Bufferized(<<>>, TRUE, TRUE, TRUE)
        ELSE IF Step1Failure(result)
        THEN /\ tstatus' = GreedyPatternFailed /\ tresults' = <<>>
             /\ tpayload' = Bufferized(<<"EmptyTensorLowering">>,
                                       result, TRUE, TRUE)
        ELSE IF ~bufferized
        THEN /\ tstatus' = DefiniteFailure /\ tresults' = <<>>
             /\ tpayload' = Bufferized(
                    <<"EmptyTensorLowering", "runOneShotBufferize">>,
                    result, bufferized, TRUE)
        ELSE IF targs.test_analysis_only
        THEN /\ tstatus' = Success /\ tresults' = <<"payload.front">>
             /\ tpayload' = Bufferized(
                    <<"EmptyTensorLowering", "runOneShotBufferize">>,
                    result, bufferized, TRUE)
        ELSE IF ~passesRan
        THEN /\ tstatus' = DefiniteFailure /\ tresults' = <<>>
             /\ tpayload' = Bufferized(
                    <<"EmptyTensorLowering", "runOneShotBufferize",
                      "pm.run">>, result, bufferized, passesRan)
        ELSE /\ tstatus' = Success /\ tresults' = <<"payload.front">>
             /\ tpayload' = Bufferized(
                    <<"EmptyTensorLowering", "runOneShotBufferize",
                      "pm.run">>, result, bufferized, passesRan)
    /\ tpc' = "done"
    /\ UNCHANGED <<top, targs, applyVars, gateVars, hoistVars, bindVars, bufVars>>

\* TransformEliminateEmptyTensorsOp::apply
TransformEliminateEmptyTensors ==
    /\ top = "eliminate" /\ tpc = "entry"
    /\ IF \E i \in DOMAIN targs.payload : ~targs.payload[i]
       THEN tstatus' = DefiniteFailure /\ tresults' = <<>>
       ELSE tstatus' = Success /\ tresults' = <<"payloads">>
    /\ tpc' = "done"
    /\ UNCHANGED <<top, targs, tpayload, applyVars, gateVars, hoistVars, bindVars, bufVars>>

\* C19: every failure a transform op returns (ApplyPatternsOp,
\* ShareForallOperandsOp, TransformBufferizeOp,
\* TransformEliminateEmptyTensorsOp) is a definite failure: an op that has
\* returned answered success or a definite failure, never a silenceable one.
C19_OnlyDefiniteFailures ==
    /\ pc = "done" => status.kind \in {"success", "definite"}
    /\ tpc = "done" => tstatus.kind \in {"success", "definite"}

\* ShareForallOperandsOp fails on an index past the forall's outputs, after
\* indices whose output is not shareable were skipped
C19_Witness ==
    /\ top = "share" /\ tpc = "done"
    /\ tstatus.kind = "definite"
    /\ Len(targs.share_operands) = 2
    /\ targs.share_operands[1] \in 0..(Len(targs.outputs) - 1)
    /\ targs.outputs[targs.share_operands[1] + 1].uses # 2

\* C21: with an empty share_operands list every output of the forall is
\* considered: the op leaves the IR it leaves for the list 0 .. outputs-1.
C21_EmptyMeansAll ==
    (top = "share" /\ tpc = "done" /\ targs.share_operands = <<>>)
        => tpayload = ShareLoop(targs.outputs, targs.outputs,
                                shareOperands(targs), 1).outputs

\* the listed indices the loop reaches: those before the first index that
\* is negative or not less than the number of outputs
InRange(a, k) ==
    a.share_operands[k] >= 0 /\ a.share_operands[k] < Len(a.outputs)

Overflows(a) == {k \in DOMAIN a.share_operands : ~InRange(a, k)}

Reached(a) ==
    {a.share_operands[k] : k \in {n \in DOMAIN a.share_operands :
                                    \A m \in Overflows(a) : n < m}}

\* C22: the slice of an output reads the output's block argument exactly
\* when the index was processed and the value had two uses, an
\* extract_slice user and a matching parallel_insert_slice; every other
\* output is unchanged, and a skipped index is no error.
C22_PromotedIffShareable ==
    (top = "share" /\ tpc = "done") =>
        /\ \A j \in DOMAIN targs.outputs :
            LET o == targs.outputs[j]
                hit == /\ (j - 1) \in Reached(targs)
                       /\ o.uses = 2 /\ o.slice /\ o.matching
            IN  /\ tpayload[j].source = BbArg(j - 1) <=> hit
                /\ ~hit => tpayload[j] = o
        /\ Overflows(targs) = {} => tstatus = Success

\* an index whose output has a third use is skipped, and the index after it
\* is promoted
C22_Witness ==
    /\ top = "share" /\ tpc = "done" /\ tstatus = Success
    /\ Len(targs.share_operands) >= 2
    /\ targs.share_operands[1] = 0 /\ targs.share_operands[2] = 1
    /\ Len(targs.outputs) = 2
    /\ targs.outputs[1].uses = 3 /\ targs.outputs[1].slice
    /\ tpayload[1].source = ToShare
    /\ tpayload[2].source = BbArg(1)

\* C23: the first index out of range ends the op with the definite failure
\* "operand idx overflow": nothing is pushed, the indices after it are not
\* processed, and what the indices before it rewrote stays rewritten.
C23_OverflowStopsAndKeeps ==
    (top = "share" /\ tpc = "done" /\ Overflows(targs) # {}) =>
        LET k == CHOOSE n \in Overflows(targs) :
                    \A m \in Overflows(targs) : n <= m
        IN  /\ tstatus = IdxOverflow
            /\ tresults = <<>>
            /\ tpayload = ShareLoop(targs.outputs, targs.outputs,
                                    SubSeq(targs.share_operands, 1, k - 1),
                                    1).outputs

\* <<0, overflow, 1>> on two shareable outputs: the first stays promoted,
\* the second is never reached
C23_Witness ==
    /\ top = "share" /\ tpc = "done" /\ tstatus = IdxOverflow
    /\ Len(targs.share_operands) = 3
    /\ targs.share_operands[1] = 0
    /\ targs.share_operands[2] = -1
    /\ targs.share_operands[3] = 1
    /\ Len(targs.outputs) = 2
    /\ tpayload[1].source = BbArg(0)
    /\ targs.outputs[2].uses = 2 /\ targs.outputs[2].slice
    /\ targs.outputs[2].matching
    /\ tpayload[2].source = ToShare

\* C30: on a single module TransformBufferizeOp always runs one-shot
\* bufferization after the tensor.empty lowering, whatever the lowering
\* answered; it fails exactly when bufferization or the pass run failed;
\* with test_analysis_only it returns success with the payload right after
\* bufferization, and the pass run does not happen.
C30_Step1FailureNotPropagated ==
    (top = "bufferize" /\ tpc = "done"
        /\ Len(targs.payload) = 1 /\ targs.payload[1]) =>
        /\ Len(tpayload.steps) >= 2
        /\ tpayload.steps[1] = "EmptyTensorLowering"
        /\ tpayload.steps[2] = "runOneShotBufferize"
        /\ tstatus =
            IF ~tpayload.bufferized THEN DefiniteFailure
            ELSE IF targs.test_analysis_only THEN Success
            ELSE IF ~tpayload.passesRan THEN DefiniteFailure
            ELSE Success
        /\ (tpayload.bufferized /\ targs.test_analysis_only) =>
            /\ tresults = <<"payload.front">>
            /\ tpayload.steps =
                <<"EmptyTensorLowering", "runOneShotBufferize">>
        /\ (tpayload.bufferized /\ ~targs.test_analysis_only) =>
            tpayload.steps[Len(tpayload.steps)] = "pm.run"

\* the lowering failed and the op still went through all three steps to
\* success
C30_Witness ==
    /\ top = "bufferize" /\ tpc = "done"
    /\ ~tpayload.result
    /\ tpayload.steps = <<"EmptyTensorLowering", "runOneShotBufferize", "pm.run">>
    /\ tstatus = Success
    /\ tresults = <<"payload.front">>

\* =========================================================================
\* The Python bindings of NelliExtension.cpp and the state they keep
\* =========================================================================

\* py::none()
None == "None"

\* The callables handed in as annotator: called with the index i of the
\* unrolled copy and the op, they return None or a (name, attribute) pair.
Annotators == {"tagAll", "tagOdd"}

\* auto res = annotator_(i, wrap(op))
CallAnnotator(a, i) ==
    IF a = "tagAll" THEN <<"unrolled", i>>
    ELSE IF a = "tagOdd" /\ i % 2 = 1 THEN <<"odd", i>>
    ELSE None

\* the SSA values show_value_as_operand is asked about
ShownValues == {"%arg0", "%0"}

\* The calls of the bindings. An affine.for is handed in with the answer
\* the host's loopUnrollByFactor gives on it.
Calls ==
    [name : {"affine_for_unroll_by_factor"},
     unrollable : BOOLEAN,
     unrollFactor : 1..MaxFactor,
     annotator : Annotators \cup {None}]
    \cup [name : {"reset_disambig_names"}]
    \cup [name : {"show_value_as_operand"}, value : ShownValues]

\* a slot that is bound once and then kept
KeepBoundAnnotator(slot, annotator) == IF slot = None THEN annotator ELSE slot

\* annotator_ = py::reinterpret_borrow<py::object>(annotator)
BindAnnotator(slot, annotator) == annotator

\* The captureless lambda bound to annotateFn reads the slot when the host
\* calls it for the i-th unrolled copy; a None answer sets no attribute.
\* (The function_ref outlives the lambda temporary, which has no state.)
annotateFn(slot, i) == CallAnnotator(slot, i)

\* affine_for_unroll_by_factor on a process whose slot holds slot: the slot
\* afterwards, and the attribute set on each unrolled copy or the exception
UnrollByFactor(slot, c) ==
    LET bound == BindAnnotator(slot, c.annotator)
    IN  [annotator_ |-> bound,
         result |->
            IF ~c.unrollable THEN "value_error: unroll by factor failed"
            ELSE [i \in 1..(c.unrollFactor - 1) |->
                    IF bound = None THEN None ELSE annotateFn(bound, i)]]

\* nelli::showValueAsOperand: the host's name of the value as an operand
showValueAsOperand(v) == v

\* what the name table may hold after nelli::showValueAsOperand
SeenAfterShow(table, v) == {table, table \cup {v}}

\* a freshly loaded extension module
FreshBind == [annotator_ |-> None, seen |-> {}]

\* the answer a call gives in a process whose state is st
ResultIn(st, c) ==
    IF c.name = "affine_for_unroll_by_factor"
    THEN UnrollByFactor(st.annotator_, c).result
    ELSE IF c.name = "reset_disambig_names" THEN None
    ELSE showValueAsOperand(c.value)

NoCall == [call |-> [name |-> "none"], before |-> FreshBind, result |-> None]

\* no affine_for_unroll_by_factor is running
NotUnrolling == [annotator |-> None, unrollFactor |-> 0, next |-> 0]

\* annotateFn was not called
NoCallback == [passed |-> None, called |-> None, i |-> 0]

InitBind ==
    /\ annotator_ = FreshBind.annotator_
    /\ seen = FreshBind.seen
    /\ ncalls = 0
    /\ last = NoCall
    /\ unrolling = NotUnrolling
    /\ callback = NoCallback

IdleBind ==
    /\ annotator_ = None
    /\ seen = {}
    /\ ncalls = MaxCalls
    /\ last = NoCall
    /\ unrolling = NotUnrolling
    /\ callback = NoCallback

Record(c) ==
    /\ ncalls < MaxCalls
    /\ ncalls' = ncalls + 1
    /\ last' = [call |-> c,
                before |-> [annotator_ |-> annotator_, seen |-> seen],
                result |-> ResultIn([annotator_ |-> annotator_, seen |-> seen], c)]
    /\ UNCHANGED <<unrolling, callback>>
    /\ UNCHANGED <<applyVars, gateVars, hoistVars, opsVars, bufVars>>

\* m.def("affine_for_unroll_by_factor", ...)
AffineForUnrollByFactor ==
    \E c \in Calls :
        /\ c.name = "affine_for_unroll_by_factor"
        /\ Record(c)
        /\ annotator_' = UnrollByFactor(annotator_, c).annotator_
        /\ UNCHANGED seen

\* m.def("reset_disambig_names", []() { nelli::seen.clear(); })
ResetDisambigNames ==
    \E c \in Calls :
        /\ c.name = "reset_disambig_names"
        /\ Record(c)
        /\ seen' = {}
        /\ UNCHANGED annotator_

\* m.def("show_value_as_operand", ...)
ShowValueAsOperand ==
    \E c \in Calls :
        /\ c.name = "show_value_as_operand"
        /\ Record(c)
        /\ seen' \in SeenAfterShow(seen, c.value)
        /\ UNCHANGED annotator_

BeginUnroll ==
    \E c \in Calls :
        /\ c.name = "affine_for_unroll_by_factor" /\ c.unrollable
        /\ unrolling = NotUnrolling
        /\ ncalls < MaxCalls
        /\ ncalls' = ncalls + 1
        /\ annotator_' = BindAnnotator(annotator_, c.annotator)
        /\ unrolling' = [annotator |-> c.annotator,
                         unrollFactor |-> c.unrollFactor,
                         next |-> IF annotator_' = None
                                  THEN c.unrollFactor ELSE 1]
        /\ UNCHANGED <<seen, last, callback>>
        /\ UNCHANGED <<applyVars, gateVars, hoistVars, opsVars, bufVars>>

\* The host calls annotateFn for the next unrolled copy: the lambda calls
\* whatever the slot holds.  The annotator called may itself call
\* affine_for_unroll_by_factor on another loop, with the annotator `inner`,
\* and that call binds the slot and runs to its end before the lambda
\* returns.  Calling a slot that holds None raises, which ends the unrolling.
AnnotateCopy ==
    /\ unrolling # NotUnrolling
    /\ unrolling.next < unrolling.unrollFactor
    /\ callback' = [passed |-> unrolling.annotator,
                    called |-> annotator_,
                    i |-> unrolling.next]
    /\ \E reenters \in BOOLEAN, inner \in Annotators \cup {None} :
        annotator_' = IF reenters /\ annotator_ # None
                      THEN BindAnnotator(annotator_, inner)
                      ELSE annotator_
    /\ unrolling' = IF annotator_ = None THEN NotUnrolling
                    ELSE [unrolling EXCEPT !.next = @ + 1]
    /\ UNCHANGED <<seen, ncalls, last>>
    /\ UNCHANGED <<applyVars, gateVars, hoistVars, opsVars, bufVars>>

\* loopUnrollByFactor has made every copy and the call returns
EndUnroll ==
    /\ unrolling # NotUnrolling
    /\ unrolling.next >= unrolling.unrollFactor
    /\ unrolling' = NotUnrolling
    /\ UNCHANGED <<annotator_, seen, ncalls, last, callback>>
    /\ UNCHANGED <<applyVars, gateVars, hoistVars, opsVars, bufVars>>

\* C29: every call of the annotation callback during one
\* affine_for_unroll_by_factor calls the annotator passed to that call, also
\* when the annotator has called affine_for_unroll_by_factor again itself.
C29_CallbackCallsOwnAnnotator ==
    callback # NoCallback => callback.called = callback.passed

\* =========================================================================
\* ApplyBufferOptimizationsOp::applyToOne: eraseDeadAllocAndStores
\* =========================================================================

\* the memref.alloc ops under target, in walk order
BufAllocs == <<1, 2>>

\* the id of the user at position i of the block
UserId(i) == 10 + i

BufKinds ==
    {"memref.dealloc", "memref.store", "vector.transfer_write",
     "memref.subview", "memref.load", "vector.transfer_read"}

\* no second memref operand
NoValue == 0

\* A user: its kind, the memref it works on (of) and, for a memref.store
\* whose stored value is itself a memref, the op that value comes from.
BufUser(k, o, v) == [kind |-> k, of |-> o, val |-> v]

\* the ops of ir whose result is a memref: the allocations and the subviews
Producers(ir) ==
    Range(BufAllocs)
        \cup {UserId(i) : i \in {j \in DOMAIN ir : ir[j].kind = "memref.subview"}}

\* the users that can follow ir in the block
NextUsers(ir) ==
    {BufUser(k, o, NoValue) : k \in BufKinds, o \in Producers(ir)}
        \cup {BufUser("memref.store", p[1], p[2]) :
                p \in {q \in Producers(ir) \X Producers(ir) : q[1] # q[2]}}

RECURSIVE BufIRs(_)
BufIRs(n) ==
    IF n = 0 THEN {<<>>}
    ELSE LET S == BufIRs(n - 1)
         IN  S \cup UNION {{Append(ir, u) : u \in NextUsers(ir)} :
                                ir \in {x \in S : Len(x) = n - 1}}

\* the positions ascending, as a sequence
RECURSIVE Ascending(_)
Ascending(P) ==
    IF P = {} THEN <<>>
    ELSE LET m == CHOOSE x \in P : \A y \in P : x <= y
         IN  <<m>> \o Ascending(P \ {m})

\* op->getUses(): one entry per operand that is the result of id, among the
\* users still present
getUses(ir, present, id) ==
    Ascending({i \in present : ir[i].of = id \/ ir[i].val = id})

\* vector::transferOpflowOpt, the host's: a transfer_read may be forwarded
\* from an earlier transfer_write of the same memref and erased, a
\* transfer_write overwritten by a later one may be erased. Any set of
\* positions that may be left.
FlowOutcomes(ir) ==
    {DOMAIN ir \ gone : gone \in
        {g \in SUBSET DOMAIN ir :
            \A i \in g :
                \/ /\ ir[i].kind = "vector.transfer_read"
                   /\ \E j \in 1..(i - 1) :
                        ir[j].kind = "vector.transfer_write" /\ ir[j].of = ir[i].of
                \/ /\ ir[i].kind = "vector.transfer_write"
                   /\ \E j \in (i + 1)..Len(ir) :
                        /\ ir[j].kind = "vector.transfer_write"
                        /\ ir[j].of = ir[i].of /\ j \notin g}}

\* isa<memref::DeallocOp, vector::TransferWriteOp, memref::StoreOp>(useOp)
StoreLike == {"memref.dealloc", "vector.transfer_write", "memref.store"}

\* allUsesAreStores(op, uses): the answer and uses afterwards. ScanUses is
\* its loop from the k-th use on, opUses the local vector.
RECURSIVE allUsesAreStores(_, _, _, _)
RECURSIVE ScanUses(_, _, _, _, _)
ScanUses(ir, present, useList, k, opUses) ==
    IF k > Len(useList) THEN [ok |-> TRUE, uses |-> opUses]
    ELSE LET i == useList[k]
         IN  IF ir[i].kind \in StoreLike
             THEN ScanUses(ir, present, useList, k + 1,
                           Append(opUses, UserId(i)))
             ELSE IF ir[i].kind = "memref.subview"
             THEN LET r == allUsesAreStores(ir, present, UserId(i), opUses)
                  IN  IF r.ok
                      THEN ScanUses(ir, present, useList, k + 1,
                                    Append(r.uses, UserId(i)))
                      ELSE [ok |-> FALSE, uses |-> opUses]
             ELSE [ok |-> FALSE, uses |-> opUses]

allUsesAreStores(ir, present, id, uses) ==
    LET r == ScanUses(ir, present, getUses(ir, present, id), 1, <<>>)
    IN  IF r.ok THEN [ok |-> TRUE, uses |-> uses \o r.uses]
        ELSE [ok |-> FALSE, uses |-> uses]

\* parentOp->walk over the memref.alloc ops, from the k-th one on
RECURSIVE WalkAllocs(_, _, _, _)
WalkAllocs(ir, present, k, list) ==
    IF k > Len(BufAllocs) THEN list
    ELSE LET r == allUsesAreStores(ir, present, BufAllocs[k], list)
         IN  WalkAllocs(ir, present, k + 1,
                        IF r.ok THEN Append(r.uses, BufAllocs[k])
                        ELSE list)

InitBuf ==
    /\ bufIn \in BufIRs(MaxBufUsers)
    /\ bufFlow = DOMAIN bufIn
    /\ bufOut = Range(BufAllocs) \cup {UserId(i) : i \in DOMAIN bufIn}
    /\ opToErase = <<>>
    /\ bufpc = "entry"
    /\ bufResults = <<>>

IdleBuf ==
    /\ bufIn = <<>>
    /\ bufFlow = {}
    /\ bufOut = {}
    /\ opToErase = <<>>
    /\ bufpc = "idle"
    /\ bufResults = <<>>

\* ApplyBufferOptimizationsOp::applyToOne
ApplyBufferOptimizations ==
    /\ bufpc = "entry"
    /\ \E present \in FlowOutcomes(bufIn) :
        LET list == WalkAllocs(bufIn, present, 1, <<>>)
        IN  /\ bufFlow' = present
            /\ opToErase' = list
            /\ bufOut' = (Range(BufAllocs) \cup {UserId(i) : i \in present})
                            \ Range(list)
    /\ bufResults' = <<"target">>
    /\ bufpc' = "done"
    /\ UNCHANGED <<bufIn, applyVars, gateVars, hoistVars, opsVars, bindVars>>

\* the users of the result of id among the positions P
UsersIn(ir, P, id) == {i \in P : ir[i].of = id \/ ir[i].val = id}

\* every use of id is a dealloc of it, a store or a transfer_write into it,
\* or a subview of which the same holds
RECURSIVE NeverRead(_, _, _)
NeverRead(ir, P, id) ==
    \A i \in UsersIn(ir, P, id) :
        \/ ir[i].kind \in {"memref.dealloc", "vector.transfer_write"}
        \/ ir[i].kind = "memref.store" /\ ir[i].of = id
        \/ ir[i].kind = "memref.subview" /\ NeverRead(ir, P, UserId(i))

\* the ids of the transitive users of id
RECURSIVE TransitiveUsers(_, _, _)
TransitiveUsers(ir, P, id) ==
    UNION {{UserId(i)} \cup
                (IF ir[i].kind = "memref.subview"
                 THEN TransitiveUsers(ir, P, UserId(i)) ELSE {}) :
           i \in UsersIn(ir, P, id)}

\* what C24 says of the allocation a, read on the users that the forwarding
\* of vector transfers left
ErasedIffNeverRead(a) ==
    LET users == TransitiveUsers(bufIn, bufFlow, a)
    IN  IF NeverRead(bufIn, bufFlow, a)
        THEN a \notin bufOut /\ users \cap bufOut = {}
        ELSE a \in bufOut /\ users \subseteq bufOut

\* C24: ApplyBufferOptimizationsOp erases an allocation with all of its
\* transitive users exactly when every use of it is a dealloc, a store, a
\* transfer_write or a subview used in that way only; any other allocation
\* is kept and none of its users is erased.
C24_ErasedIffNeverRead ==
    bufpc = "done" => \A a \in Range(BufAllocs) : ErasedIffNeverRead(a)

\* C25: no operation is on the erase list twice, and every operation on it
\* comes after all the operations that use its results.
C25_EraseOnceUsersFirst ==
    bufpc = "done" =>
        /\ \A p, q \in DOMAIN opToErase :
            opToErase[p] = opToErase[q] => p = q
        /\ \A p \in DOMAIN opToErase :
            \A u \in TransitiveUsers(bufIn, bufFlow, opToErase[p]) :
                \E q \in 1..(p - 1) : opToErase[q] = u

\* the same two statements on IR in which no memref.store stores a memref
NoMemrefStored == \A i \in DOMAIN bufIn : bufIn[i].val = NoValue

C24_OnPlainStores == NoMemrefStored => C24_ErasedIffNeverRead

C25_OnPlainStores == NoMemrefStored => C25_EraseOnceUsersFirst

\* =========================================================================
\* Specifications
\* =========================================================================

IdleGate ==
    /\ edge = "none"
    /\ other = "none"
    /\ fusedOpOperands = <<>>
    /\ gateResult = "none"
    /\ answers = <<>>

IdleHoist ==
    /\ allocType = "none"
    /\ func0 = "none"
    /\ func = "none"
    /\ hpc = "idle"
    /\ allocLikeOps = <<>>
    /\ hlog = <<>>
    /\ hresults = <<>>
    /\ hstatus = NoStatus

Init == InitApply /\ IdleGate /\ IdleHoist /\ IdleOps /\ IdleBind /\ IdleBuf

Next ==
    \/ NotIsolated
    \/ Populate
    \/ Greedy
    \/ Licm
    \/ Cse
    \/ PushResult

Spec == Init /\ [][Next]_vars

NextTwice ==
    \/ NotIsolated
    \/ Populate
    \/ Greedy
    \/ Licm
    \/ Cse
    \/ PushResult
    \/ ApplyAgain

SpecTwice == Init /\ [][NextTwice]_vars

InitOfGate == IdleApply /\ InitGate /\ IdleHoist /\ IdleOps /\ IdleBind /\ IdleBuf

NextGate ==
    \/ CallOnEdge
    \/ CallOnOther

SpecGate == InitOfGate /\ [][NextGate]_vars

InitOfHoist == IdleApply /\ IdleGate /\ InitHoist /\ IdleOps /\ IdleBind /\ IdleBuf

NextHoist ==
    \/ Collect
    \/ HoistNext
    \/ HoistDone

SpecHoist == InitOfHoist /\ [][NextHoist]_vars

InitOfHoistFunc == IdleApply /\ IdleGate /\ InitHoistFunc /\ IdleOps /\ IdleBind /\ IdleBuf

NextHoistFunc ==
    \/ Collect
    \/ HoistNext
    \/ HoistReturn

SpecHoistFunc == InitOfHoistFunc /\ [][NextHoistFunc]_vars

\* the four transform ops that can fail, one of them applied per behaviour
InitOfOps ==
    \/ InitApply /\ IdleGate /\ IdleHoist /\ IdleOps /\ IdleBind /\ IdleBuf
    \/ IdleApply /\ IdleGate /\ IdleHoist /\ InitOps /\ IdleBind /\ IdleBuf

NextOps ==
    \/ NotIsolated
    \/ Populate
    \/ Greedy
    \/ Licm
    \/ Cse
    \/ PushResult
    \/ ShareForallOperands
    \/ TransformBufferize
    \/ TransformEliminateEmptyTensors

SpecOps == InitOfOps /\ [][NextOps]_vars

InitOfBind == IdleApply /\ IdleGate /\ IdleHoist /\ IdleOps /\ InitBind /\ IdleBuf

NextBind ==
    \/ AffineForUnrollByFactor
    \/ ResetDisambigNames
    \/ ShowValueAsOperand

SpecBind == InitOfBind /\ [][NextBind]_vars

InitOfBuf ==
    IdleApply /\ IdleGate /\ IdleHoist /\ IdleOps /\ IdleBind /\ InitBuf

NextBuf == ApplyBufferOptimizations

SpecBuf == InitOfBuf /\ [][NextBuf]_vars

InitOfNested ==
    IdleApply /\ IdleGate /\ IdleHoist /\ IdleOps /\ InitBind /\ IdleBuf

NextNested ==
    \/ BeginUnroll
    \/ AnnotateCopy
    \/ EndUnroll

SpecNested == InitOfNested /\ [][NextNested]_vars

====
